---- MODULE Spec2Model ----
(***************************************************************************)
(* Model of llm-threader's admission manager (ThreadManager and            *)
(* LLMRequest).  Every handler of the JavaScript class is one operator on  *)
(* a record of the manager's fields; an action applies one handler, run to *)
(* completion, as the single-threaded event loop does.  Promise reactions  *)
(* that the code schedules for a later microtask (the race's catch         *)
(* handler, the completion promise's catch handler of execute) are kept as *)
(* pending reactions of the request and run as actions of their own.       *)
(***************************************************************************)
EXTENDS Integers, Sequences, FiniteSets, TLC

\* ------------------------------------------------------------------ bounds
MaxRequests == 3
MaxDrainRequests == 4
MaxDeadlineRequests == 2
MaxEngineTicks == 5
MaxEmergencyTicks == 12
MaxOptimumTicks == 9
MaxHysteresisTicks == 11
MaxDescentTicks == 16
MaxConfiguredThreads == 3
MaxSupervisorTicks == 2
MaxSupervisorRequests == 2
MaxTickErrors == 2
MaxRingTicks == 201
MaxRingRequests == 2
MaxRetentionSteps == 6
MaxTrendAppends == 11
MaxFollowRequests == 3
MaxFollowTicks == 5

\* JavaScript's Infinity: larger than every number the model compares it to.
Infinity == 1000000

Min(a, b) == IF a < b THEN a ELSE b
Max(a, b) == IF a > b THEN a ELSE b

VARIABLES
    maxConcurrentRequests,   \* this.maxConcurrentRequests
    activeRequests,          \* this.activeRequests
    requestQueue,            \* this.requestQueue: sequence of request ids
    isProcessing,            \* this.isProcessing
    requestHistory,          \* this.requestHistory: sequence of request ids
    maxHistorySize,          \* this.maxHistorySize
    emergencyBypassActive,   \* this.emergencyBypassActive
    desiredThreadCount,      \* this.desiredThreadCount: <<>> is null, <<n>> is n
    requests,                \* every LLMRequest created so far, by id
    scalingEngine,           \* SystemMonitor.scalingEngine: the ScalingDecisionEngine
    monitoringState,         \* SystemMonitor.monitoringState
    tickInFlight,            \* SystemMonitor._tickInFlight
    tick,                    \* the executions of monitorSystemWithScaling in progress
    isMonitoringActive,      \* SystemMonitor.isMonitoringActive
    monitoringInterval,      \* SystemMonitor.monitoringInterval: 0 is null
    timers,                  \* the interval timers of the runtime that are set
    isInitialized,           \* LLMThreader.isInitialized
    tickErrors,              \* the errors the timer callback has caught and logged
    storeHistory,            \* a UsageHistoryManager whose scalingDatabase is available
    memoryHistory,           \* a UsageHistoryManager whose scalingDatabase is not
    usageClock               \* Date.now() as the usage history reads it, in ms

managerVars == <<maxConcurrentRequests, activeRequests, requestQueue, isProcessing,
                 requestHistory, maxHistorySize, emergencyBypassActive,
                 desiredThreadCount, requests>>

supervisorVars == <<scalingEngine, monitoringState, tickInFlight, tick,
                    isMonitoringActive, monitoringInterval, timers, isInitialized,
                    tickErrors>>

usageVars == <<storeHistory, memoryHistory, usageClock>>

vars == <<managerVars, supervisorVars, usageVars>>

\* ------------------------------------------------------- values and inputs
\* An argument of updateThreadLimits as JavaScript sees it.
Num(n) == [type |-> "number", nan |-> FALSE, val |-> n]
NaNArg == [type |-> "number", nan |-> TRUE, val |-> 0]
StrArg == [type |-> "string", nan |-> FALSE, val |-> 0]
UndefinedArg == [type |-> "undefined", nan |-> FALSE, val |-> 0]

UpdateArgs ==
    {Num(n) : n \in 0..MaxRequests}
        \cup {Num(Infinity), NaNArg, StrArg, UndefinedArg}

\* options.maxHistorySize || 100
HistorySizes == {1, 100}

Priorities == {0, 1}

\* new LLMRequest(...): status "queued", nothing settled, operation not invoked.
LLMRequest(priority, emergencyBypass, timeoutMs, hasSignal) ==
    [priority |-> priority,
     emergencyBypass |-> emergencyBypass,
     timeoutMs |-> timeoutMs,
     signal |-> IF hasSignal THEN "armed" ELSE "none",
     status |-> "queued",
     result |-> "null",
     error |-> "null",
     promise |-> "pending",     \* completionPromise
     op |-> "idle",             \* the operation: idle, running, settled
     race |-> "idle",           \* Promise.race of startRequest: idle, pending, settled
     raceError |-> "null",      \* what the race rejected with
     pend |-> {}]               \* reactions scheduled and not yet run

\* The manager's fields as one record, with what the handler emitted so far.
TM ==
    [maxConcurrentRequests |-> maxConcurrentRequests,
     activeRequests |-> activeRequests,
     requestQueue |-> requestQueue,
     isProcessing |-> isProcessing,
     requestHistory |-> requestHistory,
     maxHistorySize |-> maxHistorySize,
     emergencyBypassActive |-> emergencyBypassActive,
     desiredThreadCount |-> desiredThreadCount,
     requests |-> requests,
     calls |-> <<>>]            \* onScalingUpdate(new, old) calls of this handler

\* ------------------------------------------------------------- LLMRequest
\* request.start()
RequestStart(r) == [r EXCEPT !.status = "active"]

\* request.complete(result): resolving a settled promise changes nothing.
RequestComplete(r) ==
    [r EXCEPT !.status = "completed",
              !.result = "value",
              !.promise = IF r.promise = "pending" THEN "resolved" ELSE r.promise]

\* request.fail(error): the rejection schedules execute's catch handler.
RequestFail(r, err) ==
    [r EXCEPT !.status = "failed",
              !.error = err,
              !.promise = IF r.promise = "pending" THEN "rejected" ELSE r.promise,
              !.pend = IF r.promise = "pending" THEN r.pend \cup {"cancel"} ELSE r.pend]

\* -------------------------------------------------------------- the queue
\* The comparator of requestQueue.sort: negative when a goes first.
CompareNoPriority(a, b) ==
    IF a.emergencyBypass /\ ~b.emergencyBypass THEN -1
    ELSE IF ~a.emergencyBypass /\ b.emergencyBypass THEN 1
    ELSE 0

Compare(a, b) ==
    IF a.emergencyBypass /\ ~b.emergencyBypass THEN -1
    ELSE IF ~a.emergencyBypass /\ b.emergencyBypass THEN 1
    ELSE b.priority - a.priority

\* Array.prototype.sort is stable: an element goes before the first one that
\* the comparator puts strictly after it.
InsertStable(reqs, sorted, id) ==
    LET after == {i \in 1..Len(sorted) : Compare(reqs[sorted[i]], reqs[id]) > 0}
        pos == IF after = {} THEN Len(sorted) + 1
               ELSE CHOOSE i \in after : \A j \in after : i <= j
    IN SubSeq(sorted, 1, pos - 1) \o <<id>> \o SubSeq(sorted, pos, Len(sorted))

RECURSIVE SortQueue(_, _)
SortQueue(reqs, q) ==
    IF q = <<>> THEN <<>>
    ELSE InsertStable(reqs, SortQueue(reqs, SubSeq(q, 1, Len(q) - 1)), q[Len(q)])

RemoveAt(q, i) == SubSeq(q, 1, i - 1) \o SubSeq(q, i + 1, Len(q))

\* requestQueue.filter(req => req.emergencyBypass).length
EmergencyRequestsInQueue(s) ==
    Cardinality({i \in 1..Len(s.requestQueue) :
                    s.requests[s.requestQueue[i]].emergencyBypass})

\* requestHistory.filter(req => req.status === "active" && req.emergencyBypass).length
EmergencyRequestsActive(s) ==
    Cardinality({i \in 1..Len(s.requestHistory) :
                    /\ s.requests[s.requestHistory[i]].status = "active"
                    /\ s.requests[s.requestHistory[i]].emergencyBypass})

\* ----------------------------------------------------------- startRequest
\* requestHistory.push(request); shift the oldest entry past maxHistorySize.
PushHistory(hist, id, size) ==
    LET h == Append(hist, id)
    IN IF Len(h) > size THEN Tail(h) ELSE h

\* startRequest: count the request, mark it active, record it, invoke the
\* operation and arm the race; a signal that is already aborted rejects the
\* race at once, which schedules the race's catch handler.
StartRequest(s, id) ==
    LET r == s.requests[id]
        aborted == r.signal = "aborted"
        r1 == [RequestStart(r) EXCEPT
                 !.op = "running",
                 !.race = IF aborted THEN "settled" ELSE "pending",
                 !.raceError = IF aborted THEN "abort" ELSE "null",
                 !.pend = IF aborted THEN r.pend \cup {"race"} ELSE r.pend]
    IN [s EXCEPT !.activeRequests = s.activeRequests + 1,
                 !.requests[id] = r1,
                 !.requestHistory = PushHistory(s.requestHistory, id, s.maxHistorySize)]

\* ----------------------------------------------------------- processQueue
\* while (activeRequests < maxConcurrentRequests && requestQueue.length > 0)
RECURSIVE DispatchLoop(_)
DispatchLoop(s) ==
    IF s.activeRequests < s.maxConcurrentRequests /\ Len(s.requestQueue) > 0
    THEN DispatchLoop(StartRequest([s EXCEPT !.requestQueue = Tail(s.requestQueue)],
                                   Head(s.requestQueue)))
    ELSE s

\* this.maxConcurrentRequests = originalLimit, after the bypassed start
KeepRaisedLimit(s, originalLimit) == s

RestoreLimit(s, originalLimit) ==
    [s EXCEPT !.maxConcurrentRequests = originalLimit]

\* The emergency bypass: raise the limit by one (capped at 2), start the first
\* queued emergency request, restore the limit.
BypassWithinRaisedLimit(s) ==
    IF s.activeRequests < Min(s.maxConcurrentRequests + 1, 2)
    THEN LET idxs == {i \in 1..Len(s.requestQueue) :
                         s.requests[s.requestQueue[i]].emergencyBypass}
         IN IF idxs = {} THEN s
            ELSE LET index == CHOOSE i \in idxs : \A j \in idxs : i <= j
                 IN StartRequest([s EXCEPT !.requestQueue =
                                               RemoveAt(s.requestQueue, index)],
                                 s.requestQueue[index])
    ELSE s

EmergencyBypass(s) ==
    LET idxs == {i \in 1..Len(s.requestQueue) :
                    s.requests[s.requestQueue[i]].emergencyBypass}
    IN IF idxs = {} THEN s
       ELSE LET index == CHOOSE i \in idxs : \A j \in idxs : i <= j
                id == s.requestQueue[index]
                originalLimit == s.maxConcurrentRequests
                raised == [s EXCEPT
                             !.maxConcurrentRequests = Min(originalLimit + 1, 2),
                             !.requestQueue = RemoveAt(s.requestQueue, index)]
            IN RestoreLimit(StartRequest(raised, id), originalLimit)

ProcessQueue(s) ==
    IF s.isProcessing THEN s
    ELSE LET hasEmergencyRequests == EmergencyRequestsInQueue(s) > 0
             s1 == DispatchLoop([s EXCEPT !.isProcessing = TRUE])
             s2 == IF hasEmergencyRequests
                      /\ s1.activeRequests >= s1.maxConcurrentRequests
                   THEN EmergencyBypass(s1)
                   ELSE s1
         IN [s2 EXCEPT !.isProcessing = FALSE]

\* ----------------------------------------------------- updateThreadLimits
\* typeof newLimit !== "number" || isNaN(newLimit) || newLimit < 1  ->  1
SanitizeLimit(arg) ==
    IF arg.type # "number" \/ arg.nan \/ arg.val < 1 THEN 1 ELSE arg.val

\* While emergencyBypassActive the limit asked for is raised to cover the
\* emergency requests queued or active, up to 2.
EmergencyFloorUncapped(s, newLimit) ==
    IF s.emergencyBypassActive
    THEN Max(newLimit, Max(1, EmergencyRequestsInQueue(s)
                                  + EmergencyRequestsActive(s)))
    ELSE newLimit

EmergencyFloor(s, newLimit) ==
    IF s.emergencyBypassActive
    THEN LET inQueue == EmergencyRequestsInQueue(s)
             active == EmergencyRequestsActive(s)
         IN IF inQueue > 0 \/ active > 0
            THEN Max(newLimit, Min(2, inQueue + active))
            ELSE Max(newLimit, 1)
    ELSE newLimit

\* The limit the call asks for, after both adjustments.
RequestedLimit(s, arg) == EmergencyFloor(s, SanitizeLimit(arg))

\* Never scale down below the number of currently active requests.
DeferNothing(s, newLimit) ==
    [limit |-> newLimit, desired |-> <<>>]

DeferScaleDown(s, newLimit) ==
    IF newLimit < s.maxConcurrentRequests
    THEN IF newLimit < s.activeRequests
         THEN [limit |-> s.activeRequests, desired |-> <<newLimit>>]
         ELSE [limit |-> newLimit, desired |-> <<>>]
    ELSE [limit |-> newLimit, desired |-> <<>>]

UpdateComparesRequested(s, arg) ==
    LET m == RequestedLimit(s, arg)
        d == DeferScaleDown(s, m)
        s1 == [s EXCEPT !.desiredThreadCount = d.desired]
    IN IF m # s.maxConcurrentRequests
       THEN LET oldLimit == s.maxConcurrentRequests
                s2 == [s1 EXCEPT
                         !.maxConcurrentRequests = d.limit,
                         !.calls = Append(s1.calls, <<d.limit, oldLimit>>)]
            IN IF d.limit > oldLimit THEN ProcessQueue(s2) ELSE s2
       ELSE s1

UpdateThreadLimits(s, arg) ==
    LET d == DeferScaleDown(s, RequestedLimit(s, arg))
        s1 == [s EXCEPT !.desiredThreadCount = d.desired]
    IN IF d.limit # s.maxConcurrentRequests
       THEN LET oldLimit == s.maxConcurrentRequests
                s2 == [s1 EXCEPT
                         !.maxConcurrentRequests = d.limit,
                         !.calls = Append(s1.calls, <<d.limit, oldLimit>>)]
            IN IF d.limit > oldLimit THEN ProcessQueue(s2) ELSE s2
       ELSE s1

\* ----------------------------------------------------------- queueRequest
QueueRequest(s, request) ==
    LET id == Len(s.requests) + 1
        reqs == Append(s.requests, request)
        s1 == [s EXCEPT
                 !.requests = reqs,
                 !.emergencyBypassActive =
                     IF request.emergencyBypass THEN TRUE ELSE s.emergencyBypassActive,
                 !.requestQueue = SortQueue(reqs, Append(s.requestQueue, id))]
    IN ProcessQueue(s1)

\* ---------------------------------------- completeRequest and failRequest
FindRequestAnyStatus(s, id) ==
    LET inHistory == {i \in 1..Len(s.requestHistory) : s.requestHistory[i] = id}
        queued == {i \in 1..Len(s.requestQueue) : s.requestQueue[i] = id}
    IN IF inHistory # {} \/ queued # {} THEN id ELSE 0

\* findRequest: the active entry of the history with this id, else the queued
\* request with this id; 0 when there is none.
FindRequest(s, id) ==
    LET activeMatch == {i \in 1..Len(s.requestHistory) :
                           /\ s.requestHistory[i] = id
                           /\ s.requests[id].status = "active"}
        queued == {i \in 1..Len(s.requestQueue) : s.requestQueue[i] = id}
    IN IF activeMatch # {} THEN id
       ELSE IF queued # {} THEN id
       ELSE 0

\* A finished emergency request clears emergencyBypassActive unless another
\* emergency request is active in the history.
ClearEmergency(s, id) ==
    IF s.requests[id].emergencyBypass
    THEN LET hasOther == \E i \in 1..Len(s.requestHistory) :
                            /\ s.requests[s.requestHistory[i]].status = "active"
                            /\ s.requests[s.requestHistory[i]].emergencyBypass
                            /\ s.requestHistory[i] # id
         IN IF ~hasOther THEN [s EXCEPT !.emergencyBypassActive = FALSE] ELSE s
    ELSE s

\* The deferred scale-down, applied once the active count has come down to it.
ApplyDesiredAlways(s) ==
    IF s.desiredThreadCount # <<>>
    THEN [s EXCEPT
            !.maxConcurrentRequests = s.desiredThreadCount[1],
            !.calls = Append(s.calls,
                             <<s.desiredThreadCount[1], s.maxConcurrentRequests>>),
            !.desiredThreadCount = <<>>]
    ELSE s

ApplyDesired(s) ==
    IF s.desiredThreadCount # <<>> /\ s.activeRequests <= s.desiredThreadCount[1]
    THEN [s EXCEPT
            !.maxConcurrentRequests = s.desiredThreadCount[1],
            !.calls = Append(s.calls,
                             <<s.desiredThreadCount[1], s.maxConcurrentRequests>>),
            !.desiredThreadCount = <<>>]
    ELSE s

\* What both handlers do after the request itself has been settled.
AfterTerminalNoDispatch(s, id) ==
    ApplyDesired(ClearEmergency(
        [s EXCEPT !.activeRequests = Max(0, s.activeRequests - 1)], id))

AfterTerminal(s, id) ==
    ProcessQueue(ApplyDesired(ClearEmergency(
        [s EXCEPT !.activeRequests = Max(0, s.activeRequests - 1)], id)))

CompleteRequest(s, id) ==
    LET found == FindRequest(s, id)
    IN IF found # 0
       THEN AfterTerminal([s EXCEPT !.requests[found] = RequestComplete(s.requests[found])],
                          found)
       ELSE s

FailRequest(s, id, err) ==
    LET found == FindRequest(s, id)
    IN IF found # 0
       THEN AfterTerminal([s EXCEPT !.requests[found] = RequestFail(s.requests[found], err)],
                          found)
       ELSE s

\* The catch handler execute puts on the completion promise.
Cancellation(s, id, err) ==
    LET idxs == {i \in 1..Len(s.requestQueue) : s.requestQueue[i] = id}
    IN IF idxs # {}
       THEN LET idx == CHOOSE i \in idxs : TRUE
            IN [s EXCEPT !.requestQueue = RemoveAt(s.requestQueue, idx),
                         !.requests[id] = RequestFail(s.requests[id], err)]
       ELSE FailRequest(s, id, err)

\* ================================================== ScalingDecisionEngine
\* options.maxThreads of LLMThreader after normalising: 0 stands for null.
NoMaxThreads == 0

\* The default limits of SystemMonitor and ScalingDecisionEngine.
emergencyThresholds ==
    [cpuTemp |-> 95, cpuUsage |-> 98, gpuTemp |-> 95, gpuUsage |-> 98]

highThresholds ==
    [cpuTemp |-> 85, cpuUsage |-> 85, gpuTemp |-> 85, gpuUsage |-> 85]

maxPerformanceHistory == 200
maxDemandHistory == 50
maxMetricsHistory == 120
\* if (perf.throughput.length > 20) shift
maxThreadSamples == 20

\* Entries of a history are numbered in the order of their recording.
NextStamp(ring) == IF ring = <<>> THEN 1 ELSE ring[Len(ring)] + 1

\* push(x); if (length > bound) shift()
PushWithoutShift(ring, x, bound) == Append(ring, x)

PushRing(ring, x, bound) ==
    LET r == Append(ring, x)
    IN IF Len(r) > bound THEN Tail(r) ELSE r

\* Math.ceil(a / b) for a >= 0, b > 0
CeilDiv(a, b) == (a + b - 1) \div b

\* Times are in milliseconds; the engine is constructed at time 0.
scaleCooldownMs == 10000
\* validationWindowMs lies between scaleCooldownMs and
\* max(minDataWindow * 0.5, 5000) = 15000
maxValidationWindowMs == 15000
\* if (Date.now() - this.lastStableTime > 30000)
stablePeriodMs == 30000
\* the time between two ticks: intervalMs, here half the cooldown
TickGaps == {5000}

\* new ScalingDecisionEngine({maxThreads})
NewEngine(maxThreads) ==
    [useOptimalMaxThreads |-> maxThreads = NoMaxThreads,
     defaultMaxThreads |-> maxThreads,
     optimalMaxThreads |-> <<>>,            \* <<>> is null
     currentOptimalEfficiency |-> <<>>,     \* <<>> is null
     lastRecommendedThreads |-> 1,
     lastScalingDecision |-> 0 - scaleCooldownMs,
     consecutiveEmergencies |-> 0,
     lastStableTime |-> <<0>>,              \* <<>> is null
     pendingScaleUpValidation |-> <<>>,     \* <<>> is null
     performanceHistory |-> <<>>,
     demandHistory |-> <<>>,
     performanceByThreadCount |-> {},       \* [threadCount, samples] per level
     latestPerformance |-> <<>>]            \* the newest performance point

\* Date.now() at the engine's latest tick.
Now(e) ==
    IF e.latestPerformance = <<>> THEN 0 ELSE e.latestPerformance[1].timestamp

\* What a tick reads from the clock and from the measured values the model
\* does not carry: the time, the validation window the guardrails derive
\* from the latencies, whether the averages of cumulative time support the
\* next level, how the validation of a scale-up comes out once it has
\* matured, what the usage history recommends, whether the demand history
\* holds a point of high demand, and the efficiency score of every level.
UsageOutcomes ==
    {[action |-> "maintain", intensityChange |-> 0],
     [action |-> "maintain", intensityChange |-> 1],
     [action |-> "scale_down", intensityChange |-> 0],
     [action |-> "scale_up", intensityChange |-> 0],
     [action |-> "scale_up", intensityChange |-> -1]}

\* Efficiency scores: two that differ by less than the margin of 5, one
\* that is better than both by more, and two large ones whose margin is 2 %.
Efficiencies == {-400, -393, -10, -6, 0}

\* The levels that have been measured, and the samples of a level.
MeasuredLevels(e) == {w.threadCount : w \in e.performanceByThreadCount}

Samples(e, threadCount) ==
    LET hits == {w \in e.performanceByThreadCount : w.threadCount = threadCount}
    IN IF hits = {} THEN <<>> ELSE (CHOOSE w \in hits : TRUE).samples

\* Math.max(5, Math.ceil(this.performanceHistory.length * 0.05) || 5)
SampleRequirement(e) == Max(5, CeilDiv(Len(e.performanceHistory) * 5, 100))

\* The levels that have the samples updateOptimalMaxThreads requires.
Candidates(e) ==
    {k \in MeasuredLevels(e) : Len(Samples(e, k)) >= SampleRequirement(e)}

\* calculateEfficiencyImprovementMargin(prevEfficiency, nextEfficiency),
\* times 50: Math.max(5, Math.max(|prev|, |next|, 1) * 0.02)
Abs(x) == IF x < 0 THEN 0 - x ELSE x

CalculateEfficiencyImprovementMargin(prevEfficiency, nextEfficiency) ==
    Max(250, Max(Abs(prevEfficiency), Max(Abs(nextEfficiency), 1)))

\* updateOptimalMaxThreads: the best level among those with enough samples
\* becomes the optimum, unless there is an optimum already and the best
\* level is not better than it by the margin.
NoHysteresis(e, env) ==
    LET candidates == Candidates(e)
        bestThreadCount ==
            CHOOSE k \in candidates :
                \A j \in candidates :
                    \/ env.efficiency[k] > env.efficiency[j]
                    \/ env.efficiency[k] = env.efficiency[j] /\ k <= j
    IN IF candidates = {} THEN e
       ELSE [e EXCEPT !.optimalMaxThreads = <<bestThreadCount>>,
                      !.currentOptimalEfficiency = <<env.efficiency[bestThreadCount]>>]

UpdateOptimalMaxThreads(e, env) ==
    LET candidates == Candidates(e)
        bestThreadCount ==
            CHOOSE k \in candidates :
                \A j \in candidates :
                    \/ env.efficiency[k] > env.efficiency[j]
                    \/ env.efficiency[k] = env.efficiency[j] /\ k <= j
        bestEfficiency == env.efficiency[bestThreadCount]
        prevOptimal == e.optimalMaxThreads
        prevMeasured == prevOptimal # <<>> /\ prevOptimal[1] \in candidates
        prevEfficiency ==
            IF prevMeasured THEN <<env.efficiency[prevOptimal[1]]>>
            ELSE e.currentOptimalEfficiency
    IN IF candidates = {} THEN e
       ELSE IF /\ prevOptimal # <<>>
               /\ bestThreadCount # prevOptimal[1]
               /\ prevEfficiency # <<>>
               /\ 50 * bestEfficiency
                    < 50 * prevEfficiency[1]
                        + CalculateEfficiencyImprovementMargin(prevEfficiency[1],
                                                               bestEfficiency)
            THEN e
            ELSE [e EXCEPT !.optimalMaxThreads = <<bestThreadCount>>,
                           !.currentOptimalEfficiency = <<bestEfficiency>>]

\* trackPerformanceByThreadCount: the window of the level keeps 20 samples.
TrackPerformanceByThreadCount(e, threadCount, stamp, env) ==
    LET window == PushRing(Samples(e, threadCount), stamp, maxThreadSamples)
        e1 == [e EXCEPT !.performanceByThreadCount =
                  {w \in @ : w.threadCount # threadCount}
                      \cup {[threadCount |-> threadCount, samples |-> window]}]
    IN UpdateOptimalMaxThreads(e1, env)

\* recordPerformanceData(metrics, currentThreads, queuePressure, activeThreads,
\* ..., throughput, avgLatency, backlogSize)
RecordPerformanceData(e, currentThreads, qm, env) ==
    LET stamp == NextStamp(e.performanceHistory)
        e1 == [e EXCEPT
                 !.performanceHistory = PushRing(@, stamp, maxPerformanceHistory),
                 !.latestPerformance =
                     <<[timestamp |-> env.now,
                        queuePressure |-> qm.queuePressure,
                        activeThreads |-> qm.activeThreads,
                        backlog |-> qm.backlog,
                        concurrentThreads |-> currentThreads]>>]
        e2 == IF e.useOptimalMaxThreads /\ qm.measured
              THEN TrackPerformanceByThreadCount(e1, currentThreads, stamp, env)
              ELSE e1
    IN [e2 EXCEPT !.demandHistory =
            PushRing(@, NextStamp(e.demandHistory), maxDemandHistory)]

\* The environments of a tick; what the tick does not consult is left out:
\* the measured values of an engine that measures nothing, the outcome of a
\* validation when none is pending, the scores of levels that lack the
\* samples, and what lies past the override on a tick that is sure to end
\* in it.  The clock has moved on by one of the given gaps; the usage
\* history and the efficiency scores come from the given sets.
EnvironmentsWith(e, isEmergency, measured, gaps, usages, efficiencies) ==
    LET measures == e.useOptimalMaxThreads /\ (measured \/ MeasuredLevels(e) # {})
        pending == e.pendingScaleUpValidation # <<>>
        overrides == isEmergency /\ e.consecutiveEmergencies >= 10
        scored == IF e.useOptimalMaxThreads /\ measured
                  THEN {k \in MeasuredLevels(e) :
                           Len(Samples(e, k)) + 1 >= SampleRequirement(e)}
                  ELSE {}
    IN [now : {Now(e) + gap : gap \in gaps},
        validationWindowMs :
            IF (measures \/ Len(e.performanceHistory) >= 10) /\ ~overrides
            THEN {scaleCooldownMs, maxValidationWindowMs}
            ELSE {scaleCooldownMs},
        historySupports : IF measures /\ ~overrides THEN BOOLEAN ELSE {TRUE},
        validation : IF measures /\ pending /\ ~overrides
                     THEN {"passed", "regressed"} ELSE {"passed"},
        usage : IF overrides THEN {[action |-> "maintain", intensityChange |-> 0]}
                ELSE usages,
        recentHighDemand : IF overrides THEN {FALSE} ELSE BOOLEAN,
        efficiency : [scored -> efficiencies]]

Environments(e, isEmergency, measured) ==
    EnvironmentsWith(e, isEmergency, measured, TickGaps, UsageOutcomes, Efficiencies)

\* Math.floor(effectiveMaxThreads * Math.max(0.5, Math.min(1.5, 1 - intensity * 0.3)))
\* with the intensity in tenths.
UnboundedMaxThreads(effectiveMaxThreads, intensity) == Infinity

AdjustedMaxThreads(effectiveMaxThreads, intensity) ==
    IF effectiveMaxThreads = Infinity THEN Infinity
    ELSE (effectiveMaxThreads * Max(50, Min(150, 100 - 3 * intensity))) \div 100

\* handleEmergencyAdaptation: the override, <<>> for null.
CountEmergenciesOnly(e, isEmergency, isNearEmergency, env) ==
    IF isEmergency /\ e.consecutiveEmergencies + 1 > 3
    THEN [e |-> [e EXCEPT !.consecutiveEmergencies = @ + 1,
                          !.lastRecommendedThreads = 1,
                          !.lastStableTime = <<>>],
          override |-> <<1>>]
    ELSE [e |-> IF isEmergency THEN [e EXCEPT !.consecutiveEmergencies = @ + 1] ELSE e,
          override |-> <<>>]

HandleEmergencyAdaptation(e, isEmergency, isNearEmergency, env) ==
    IF isEmergency \/ isNearEmergency
    THEN LET n == e.consecutiveEmergencies + 1
             limit == IF isEmergency THEN 3 ELSE 10
         IN IF n > limit
            THEN [e |-> [e EXCEPT !.consecutiveEmergencies = n,
                                  !.lastRecommendedThreads = 1,
                                  !.lastStableTime = <<>>],
                  override |-> <<1>>]
            ELSE [e |-> [e EXCEPT !.consecutiveEmergencies = n], override |-> <<>>]
    ELSE LET lastStableTime ==
                 IF e.lastStableTime = <<>> THEN env.now ELSE e.lastStableTime[1]
         IN [e |-> IF env.now - lastStableTime > stablePeriodMs
                   THEN [e EXCEPT !.consecutiveEmergencies = 0,
                                  !.lastStableTime = <<env.now>>]
                   ELSE [e EXCEPT !.lastStableTime = <<lastStableTime>>],
             override |-> <<>>]

\* Math.ceil(Math.sqrt(n))
CeilSqrt(n) == CHOOSE r \in 0..n : r * r >= n /\ (r = 0 \/ (r - 1) * (r - 1) < n)

\* getScaleUpGuardrails(currentThreads, nextThreads): the window and the
\* samples required; the tolerance is part of the outcome of the comparison.
GetScaleUpGuardrails(e, currentThreads, nextThreads, env) ==
    LET sampleDensity ==
            Max(Len(Samples(e, currentThreads)),
                Max(Len(Samples(e, nextThreads)),
                    CeilDiv(Len(e.performanceHistory), 10)))
    IN [validationWindowMs |-> env.validationWindowMs,
        samplesRequired |-> Max(2, Min(25, CeilSqrt(sampleDensity + nextThreads)))]

\* noteScaleUpValidation(previousThreads, nextThreads, guardrails)
NoteScaleUpValidation(e, previousThreads, nextThreads, env) ==
    IF nextThreads > previousThreads
    THEN [e EXCEPT !.pendingScaleUpValidation =
             <<[targetThreads |-> nextThreads,
                baselineThreads |-> previousThreads,
                startedAt |-> env.now,
                guardrails |->
                    GetScaleUpGuardrails(e, previousThreads, nextThreads, env)]>>]
    ELSE IF /\ e.pendingScaleUpValidation # <<>>
            /\ nextThreads <= e.pendingScaleUpValidation[1].baselineThreads
         THEN [e EXCEPT !.pendingScaleUpValidation = <<>>]
         ELSE e

\* afterScalingDecision(rawSamples, recommendedThreads, previousThreads, guardrails)
AfterScalingDecision(e, recommendedThreads, previousThreads, env) ==
    LET e1 == IF previousThreads # recommendedThreads
              THEN NoteScaleUpValidation(
                       [e EXCEPT !.lastScalingDecision = env.now],
                       previousThreads, recommendedThreads, env)
              ELSE e
    IN [e1 EXCEPT !.lastRecommendedThreads = recommendedThreads]

\* The validation has matured when the target level has the samples the
\* guardrails require.
Matured(e) ==
    /\ e.pendingScaleUpValidation # <<>>
    /\ Len(Samples(e, e.pendingScaleUpValidation[1].targetThreads))
          >= e.pendingScaleUpValidation[1].guardrails.samplesRequired

\* isAwaitingScaleUpValidation()
IsAwaitingScaleUpValidation(e, env) ==
    /\ e.pendingScaleUpValidation # <<>>
    /\ e.pendingScaleUpValidation[1].targetThreads = e.lastRecommendedThreads
    /\ ~Matured(e)
    /\ env.now - e.pendingScaleUpValidation[1].startedAt
          < e.pendingScaleUpValidation[1].guardrails.validationWindowMs

\* evaluateScaleUpValidation(): the engine after it, and whether the baseline
\* is forced.
NeverForceBaseline(e, env) ==
    [e |-> IF Matured(e) THEN [e EXCEPT !.pendingScaleUpValidation = <<>>] ELSE e,
     forceBaseline |-> FALSE,
     pending |-> <<>>]

EvaluateScaleUpValidation(e, env) ==
    IF e.pendingScaleUpValidation = <<>>
    THEN [e |-> e, forceBaseline |-> FALSE, pending |-> <<>>]
    ELSE IF ~Matured(e)
    THEN [e |-> IF env.now - e.pendingScaleUpValidation[1].startedAt
                      > e.pendingScaleUpValidation[1].guardrails.validationWindowMs
                THEN [e EXCEPT !.pendingScaleUpValidation = <<>>] ELSE e,
          forceBaseline |-> FALSE, pending |-> <<>>]
    ELSE [e |-> [e EXCEPT !.pendingScaleUpValidation = <<>>],
          forceBaseline |->
              /\ env.validation = "regressed"
              /\ Samples(e, e.pendingScaleUpValidation[1].baselineThreads) # <<>>,
          pending |-> e.pendingScaleUpValidation]

\* historicalDataSupportsScaleUp: true unless both levels have the samples
\* required.
HistoricalDataSupportsScaleUp(e, currentThreads, nextThreads, env) ==
    LET samplesRequired ==
            GetScaleUpGuardrails(e, currentThreads, nextThreads, env).samplesRequired
    IN \/ Len(Samples(e, currentThreads)) < samplesRequired
       \/ Len(Samples(e, nextThreads)) < samplesRequired
       \/ env.historySupports

\* canScaleUpGradually(currentThreads, nextThreads, guardrails)
CanScaleUpGradually(e, currentThreads, nextThreads, env) ==
    /\ ~IsAwaitingScaleUpValidation(e, env)
    /\ HistoricalDataSupportsScaleUp(e, currentThreads, nextThreads, env)
    /\ ~(env.now - e.lastScalingDecision
            < Max(env.validationWindowMs, scaleCooldownMs))

\* The point recordPerformanceData has just put into demandHistory counts as
\* high demand when it has unmet demand or a utilization above 0.7.
LatestDemandIsHigh(p) ==
    \/ p.queuePressure > 0 /\ p.activeThreads >= p.concurrentThreads
    \/ p.backlog >= p.concurrentThreads
    \/ 10 * p.activeThreads > 7 * Max(p.concurrentThreads, 1)

\* getRecentDemandPattern().hasRecentHighDemand
HasRecentHighDemand(e, env) ==
    \/ e.latestPerformance # <<>> /\ LatestDemandIsHigh(e.latestPerformance[1])
    \/ env.recentHighDemand

\* makeScalingDecision(latest, utilization, hasUnmetDemand, queuePressure,
\* maxThreads, operationMixWithContext, backlog): utilization is
\* activeThreads / max(concurrentThreads, 1) of the latest point.
MakeScalingDecision(e, p, hasUnmetDemand, maxThreads, intensity, env) ==
    LET currentThreads == e.lastRecommendedThreads
        effectiveMaxThreads ==
            IF e.useOptimalMaxThreads
            THEN IF e.optimalMaxThreads # <<>> THEN e.optimalMaxThreads[1] ELSE Infinity
            ELSE maxThreads
        adjustedMaxThreads == AdjustedMaxThreads(effectiveMaxThreads, intensity)
        width == Max(p.concurrentThreads, 1)
        highUtilization == 10 * p.activeThreads > 8 * width
        lowUtilization ==
            IF intensity > 7 THEN 10 * p.activeThreads < 4 * width
            ELSE 10 * p.activeThreads < 3 * width
    IN IF (hasUnmetDemand \/ highUtilization) /\ currentThreads < adjustedMaxThreads
       THEN IF CanScaleUpGradually(e, currentThreads, currentThreads + 1, env)
            THEN [threads |-> currentThreads + 1, scaleType |-> "up"]
            ELSE [threads |-> currentThreads, scaleType |-> "none"]
       ELSE IF /\ lowUtilization
               /\ p.queuePressure = 0
               /\ ~HasRecentHighDemand(e, env)
               /\ currentThreads > 1
            THEN [threads |-> currentThreads - 1, scaleType |-> "down"]
            ELSE [threads |-> currentThreads, scaleType |-> "none"]

\* recommendThreadCount(currentMetrics, maxThreads)
RecommendThreadCount(e, maxThreads, env) ==
    LET last == e.lastRecommendedThreads
        byAction ==
            IF env.usage.action = "scale_down" THEN Max(1, last - 1)
            ELSE IF env.usage.action = "scale_up" /\ last < maxThreads
                 THEN Min(maxThreads, last + 1)
                 ELSE last
        byMix ==
            IF env.usage.intensityChange > 0 THEN Max(1, byAction - 1)
            ELSE IF env.usage.intensityChange < 0 THEN Min(maxThreads, byAction + 1)
            ELSE byAction
        recommended ==
            IF byMix > last /\ ~CanScaleUpGradually(e, last, byMix, env)
            THEN last
            ELSE byMix
    IN Max(1, Min(maxThreads, recommended))

\* findOptimalThreadCount(rawSamples, operationMixes, null, thresholds,
\* isEmergency, isNearEmergency, operationMixWithContext): the engine after
\* the call and its result, with the confidence in hundredths and as the set
\* of the values it can take.
FindOptimalThreadCount(e, isEmergency, isNearEmergency, intensity, env) ==
    LET effectiveMaxThreads ==
            IF e.useOptimalMaxThreads
            THEN IF e.optimalMaxThreads # <<>> THEN e.optimalMaxThreads[1] ELSE Infinity
            ELSE e.defaultMaxThreads
        adjustedMaxThreads == AdjustedMaxThreads(effectiveMaxThreads, intensity)
        emergency == HandleEmergencyAdaptation(e, isEmergency, isNearEmergency, env)
        e1 == emergency.e
        validation == EvaluateScaleUpValidation(e1, env)
        e2 == validation.e
        p == e2.latestPerformance[1]
        hasUnmetDemand ==
            \/ p.backlog >= e2.lastRecommendedThreads
            \/ p.queuePressure > 0 /\ p.activeThreads >= e2.lastRecommendedThreads
        demandDecision ==
            MakeScalingDecision(e2, p, hasUnmetDemand, adjustedMaxThreads, intensity, env)
        trendMaxThreads ==
            IF e2.useOptimalMaxThreads /\ e2.optimalMaxThreads # <<>>
            THEN e2.optimalMaxThreads[1]
            ELSE adjustedMaxThreads
        recommended == RecommendThreadCount(e2, trendMaxThreads, env)
    IN IF emergency.override # <<>>
       THEN [e |-> AfterScalingDecision(e1, emergency.override[1],
                                        e1.lastRecommendedThreads, env),
             recommendedThreads |-> Max(1, Min(adjustedMaxThreads, emergency.override[1])),
             reason |-> "emergency_override",
             confidence |-> {100}]
       ELSE IF /\ validation.forceBaseline
               /\ e2.lastRecommendedThreads > validation.pending[1].baselineThreads
       THEN LET fallbackThreads ==
                    Max(1, Min(adjustedMaxThreads, validation.pending[1].baselineThreads))
            IN [e |-> AfterScalingDecision(e2, fallbackThreads,
                                           e2.lastRecommendedThreads, env),
                recommendedThreads |-> fallbackThreads,
                reason |-> "validation_regression",
                confidence |-> {85}]
       ELSE IF e2.latestPerformance # <<>> /\ demandDecision.scaleType # "none"
       THEN [e |-> AfterScalingDecision(e2, demandDecision.threads,
                                        e2.lastRecommendedThreads, env),
             recommendedThreads |-> demandDecision.threads,
             reason |-> demandDecision.scaleType,
             confidence |-> {80}]
       ELSE [e |-> AfterScalingDecision(e2, recommended, e2.lastRecommendedThreads, env),
             recommendedThreads |-> Max(1, Min(adjustedMaxThreads, recommended)),
             reason |-> "conservative",
             confidence |-> {70, 90}]

\* ========================================================== SystemMonitor
\* What getEnhancedSystemInfo returns: CPU temperature and load, GPU
\* temperature and load (0 where the platform reports none).
SystemInfo(avgTemp, cpuLoad, avgGpuTemp, avgGpuUsage) ==
    [avgTemp |-> avgTemp, cpuLoad |-> cpuLoad,
     avgGpuTemp |-> avgGpuTemp, avgGpuUsage |-> avgGpuUsage]

CoolSystem == SystemInfo(60, 40, 0, 0)
WarmSystem == SystemInfo(90, 40, 0, 0)
HotSystem == SystemInfo(95, 40, 0, 0)
BusySystem == SystemInfo(60, 98, 0, 0)
HotGpuSystem == SystemInfo(60, 40, 95, 0)

\* The isEmergency argument monitorSystemWithScaling passes to the engine.
IsEmergency(systemInfo) ==
    \/ systemInfo.avgTemp >= emergencyThresholds.cpuTemp
    \/ systemInfo.cpuLoad >= emergencyThresholds.cpuUsage
    \/ systemInfo.avgGpuTemp >= emergencyThresholds.gpuTemp
    \/ systemInfo.avgGpuUsage >= emergencyThresholds.gpuUsage

\* The isNearEmergency argument.
IsNearEmergency(systemInfo) ==
    \/ systemInfo.avgTemp >= highThresholds.cpuTemp
    \/ systemInfo.cpuLoad >= highThresholds.cpuUsage
    \/ systemInfo.avgGpuTemp >= highThresholds.gpuTemp
    \/ systemInfo.avgGpuUsage >= highThresholds.gpuUsage

\* What getQueueMetrics reports to a tick.
QueueMetrics(queuePressure, activeThreads, measured) ==
    [queuePressure |-> queuePressure,
     activeThreads |-> activeThreads,
     backlog |-> queuePressure + activeThreads,
     measured |-> measured]          \* throughput and avgLatency are not null

\* The getQueueMetrics callback of LLMThreader.
GetQueueMetrics(tm) ==
    QueueMetrics(Len(tm.requestQueue), tm.activeRequests, TRUE)

\* The supervisor, the engine and the manager as one record, with the calls
\* of the user's onScalingUpdate callback the handler made so far.
LT ==
    [scalingEngine |-> scalingEngine,
     monitoringState |-> monitoringState,
     tickInFlight |-> tickInFlight,
     tick |-> tick,
     isMonitoringActive |-> isMonitoringActive,
     monitoringInterval |-> monitoringInterval,
     timers |-> timers,
     isInitialized |-> isInitialized,
     tickErrors |-> tickErrors,
     threadManager |-> TM,
     userCalls |-> <<>>]

\* updateMetricsHistory(systemInfo)
UpdateMetricsHistory(ms) ==
    [ms EXCEPT !.systemMetrics =
        PushRing(@, NextStamp(ms.systemMetrics), maxMetricsHistory)]

\* The callbacks LLMThreader wires: the manager's onScalingUpdate goes to the
\* user's callback, and the supervisor's onScalingUpdate updates the manager
\* and then calls the user's callback itself.
OnScalingUpdate(w, newThreads, oldThreads) ==
    LET tm == UpdateThreadLimits([w.threadManager EXCEPT !.calls = <<>>],
                                 Num(newThreads))
    IN [w EXCEPT !.threadManager = tm,
                 !.userCalls = w.userCalls \o tm.calls \o <<<<newThreads, oldThreads>>>>]

\* A result of findOptimalThreadCount as the supervisor sees it: no object,
\* or an object with some value as recommendedThreads.
ScalingResult(recommendedThreads, reason) ==
    [missing |-> FALSE, recommendedThreads |-> recommendedThreads, reason |-> reason]

MissingResult ==
    [missing |-> TRUE, recommendedThreads |-> UndefinedArg, reason |-> "null"]

\* The check on the engine's result: a result that is missing makes the
\* assignment throw; a recommendation that is not a number or is NaN becomes
\* 1 with reason fallback_safety.
FallbackSafety(scalingResult) ==
    IF scalingResult.missing
    THEN [threw |-> TRUE, result |-> scalingResult]
    ELSE IF \/ scalingResult.recommendedThreads.type # "number"
            \/ scalingResult.recommendedThreads.nan
         THEN [threw |-> FALSE, result |-> ScalingResult(Num(1), "fallback_safety")]
         ELSE [threw |-> FALSE, result |-> scalingResult]

\* finally { this._tickInFlight = false; }
KeepInFlight(w) == w

ClearInFlight(w) == [w EXCEPT !.tickInFlight = FALSE]

\* The end of an execution of monitorSystemWithScaling, by return or throw.
FinishTick(w, i) ==
    ClearInFlight([w EXCEPT !.tick = RemoveAt(w.tick, i)])

\* The timer callback's try/catch around the tick: what the tick throws is
\* logged and goes no further.
CatchTickError(w, i) ==
    [FinishTick(w, i) EXCEPT !.tickErrors = w.tickErrors + 1]

\* The tick from the engine's result on: the fallback, the monitoring state,
\* the callback when the thread count changes.
ApplyScalingResult(w, i, scalingResult) ==
    LET checked == FallbackSafety(scalingResult)
        recommended == checked.result.recommendedThreads.val
        oldCount == w.monitoringState.currentThreadCount
        w1 == [w EXCEPT
                 !.monitoringState.recommendedThreadCount = recommended,
                 !.monitoringState.lastScalingDecision = checked.result.reason,
                 !.monitoringState.currentThreadCount = recommended]
    IN IF checked.threw THEN CatchTickError(w, i)
       ELSE IF oldCount # recommended
            THEN FinishTick(OnScalingUpdate(w1, recommended, oldCount), i)
            ELSE FinishTick(w1, i)

\* monitorSystemWithScaling up to the first await: a tick that finds another
\* one in flight returns at once.
StartTickUnguarded(w) ==
    [w EXCEPT !.tickInFlight = TRUE,
              !.tick = Append(w.tick, [pc |-> "telemetry", queueMetrics |-> <<>>,
                                       systemInfo |-> <<>>])]

StartTick(w) ==
    IF w.tickInFlight THEN w
    ELSE [w EXCEPT !.tickInFlight = TRUE,
                   !.tick = Append(w.tick, [pc |-> "telemetry", queueMetrics |-> <<>>,
                                            systemInfo |-> <<>>])]

\* The telemetry has arrived: it is recorded and the queue metrics are read.
RecordTelemetry(w, i, systemInfo, queueMetrics) ==
    [w EXCEPT !.monitoringState = UpdateMetricsHistory(w.monitoringState),
              !.tick[i] = [pc |-> "engine", queueMetrics |-> <<queueMetrics>>,
                           systemInfo |-> <<systemInfo>>]]

\* The rest of the tick: the performance data are recorded, the engine
\* decides, the result is applied.
Decide(w, i, intensity, env) ==
    LET systemInfo == w.tick[i].systemInfo[1]
        recorded == RecordPerformanceData(w.scalingEngine,
                                          w.monitoringState.currentThreadCount,
                                          w.tick[i].queueMetrics[1], env)
        found == FindOptimalThreadCount(recorded, IsEmergency(systemInfo),
                                        IsNearEmergency(systemInfo), intensity, env)
    IN ApplyScalingResult([w EXCEPT !.scalingEngine = found.e], i,
                          ScalingResult(Num(found.recommendedThreads), found.reason))

\* new SystemMonitor(options), inside new LLMThreader(options)
InitSupervisor(maxThreads) ==
    /\ scalingEngine = NewEngine(maxThreads)
    /\ monitoringState = [currentThreadCount |-> 1,
                          recommendedThreadCount |-> 1,
                          lastScalingDecision |-> "null",
                          systemMetrics |-> <<>>]
    /\ tickInFlight = FALSE
    /\ tick = <<>>
    /\ isMonitoringActive = FALSE
    /\ monitoringInterval = 0
    /\ timers = {}
    /\ isInitialized = FALSE
    /\ tickErrors = 0

\* startContinuousMonitoring(): setInterval unless monitoring is active.
StartContinuousMonitoring(w) ==
    IF w.isMonitoringActive THEN w
    ELSE LET handle == CHOOSE h \in 1..(Cardinality(w.timers) + 1) : h \notin w.timers
         IN [w EXCEPT !.isMonitoringActive = TRUE,
                      !.monitoringInterval = handle,
                      !.timers = w.timers \cup {handle}]

\* stopContinuousMonitoring(): clearInterval if there is one.
StopWithoutClearing(w) ==
    [w EXCEPT !.isMonitoringActive = FALSE,
              !.monitoringInterval = 0]

StopContinuousMonitoring(w) ==
    [w EXCEPT !.isMonitoringActive = FALSE,
              !.monitoringInterval = 0,
              !.timers = IF w.monitoringInterval # 0
                         THEN w.timers \ {w.monitoringInterval} ELSE w.timers]

\* ============================================================ LLMThreader
\* initialize()
Initialize(w) ==
    IF w.isInitialized THEN w
    ELSE [StartContinuousMonitoring(w) EXCEPT !.isInitialized = TRUE]

\* shutdown()
Shutdown(w) ==
    [StopContinuousMonitoring(w) EXCEPT !.isInitialized = FALSE]

\* execute(operation, options): initialize first if need be.
ThreaderExecute(w, request) ==
    LET w1 == Initialize(w)
    IN [w1 EXCEPT !.threadManager = QueueRequest(w1.threadManager, request)]

\* ------------------------------------------------------- the usage history
\* The usage data recordPerformanceData appends, reduced to the fields the
\* trend analysis reads: the keys are the camelCase keys of the call.
EmptyMix == [type \in {} |-> 0]

ChatMix == [type \in {"chat"} |-> 2]

UsageData(cpuUsage, cpuTemp, concurrentThreads, operationMix) ==
    [cpuUsage |-> cpuUsage, cpuTemp |-> cpuTemp, memoryUsage |-> 50,
     concurrentThreads |-> concurrentThreads, operationMix |-> operationMix]

IdleUsage == UsageData(30, 60, 2, EmptyMix)

BusyUsage == UsageData(90, 60, 2, ChatMix)

RisingUsage == UsageData(80, 60, 2, ChatMix)

HotUsage == UsageData(30, 90, 2, ChatMix)

\* JSON.stringify and JSON.parse of an operation mix: the text is not the
\* mix, and only a text parses.
JSONstringify(value) == [json |-> value]

JSONparse(text) == text.json

\* array.slice(-n) for n > 0
SliceLast(array, n) ==
    IF Len(array) <= n THEN array
    ELSE SubSeq(array, Len(array) - n + 1, Len(array))

\* ScalingDatabase.addUsageData(data): the row of usage_history, its columns
\* in snake_case.
InsertUsageRow(table, data) ==
    Append(table,
           [timestamp |-> data.timestamp,
            cpu_usage |-> data.cpuUsage,
            cpu_temp |-> data.cpuTemp,
            memory_usage |-> data.memoryUsage,
            concurrent_threads |-> data.concurrentThreads,
            operation_mix |-> JSONstringify(data.operationMix)])

\* ScalingDatabase.getUsageHistory(minutes) at the time now
GetUsageHistory(table, minutes, now) ==
    SelectSeq(table, LAMBDA row : row.timestamp >= now - minutes * 60000)

\* ScalingDatabase.cleanupOldUsageData(minutes) at the time now
CleanupOldUsageData(table, minutes, now) ==
    SelectSeq(table, LAMBDA row : ~(row.timestamp < now - minutes * 60000))

\* new UsageHistoryManager({maxHistoryAgeMinutes, maxDataPoints}) beside a
\* store that is available or not; _memoryHistory is empty until the first
\* push, usage_history is the table of the store.
NewUsageHistoryManager(available, maxHistoryAgeMinutes, maxDataPoints) ==
    [available |-> available,
     maxHistoryAge |-> maxHistoryAgeMinutes * 60 * 1000,
     maxDataPoints |-> maxDataPoints,
     memoryHistory |-> <<>>,
     usage_history |-> <<>>]

\* cleanup() at the time now
Cleanup(m, now) ==
    IF m.available
    THEN [m EXCEPT !.usage_history =
                       CleanupOldUsageData(@, m.maxHistoryAge \div 60000, now)]
    ELSE LET cutoff == now - m.maxHistoryAge
             kept == SelectSeq(m.memoryHistory,
                               LAMBDA point : point.timestamp >= cutoff)
         IN [m EXCEPT !.memoryHistory =
                          IF Len(kept) > m.maxDataPoints
                          THEN SliceLast(kept, m.maxDataPoints)
                          ELSE kept]

\* addUsageData(usageData) at the time now
AddUsageData(m, usageData, now) ==
    LET stamped == [timestamp |-> now] @@ usageData
        added ==
            IF m.available
            THEN [m EXCEPT !.usage_history = InsertUsageRow(@, stamped)]
            ELSE [m EXCEPT !.memoryHistory =
                               SliceLast(Append(@, stamped), m.maxDataPoints)]
    IN Cleanup(added, now)

\* getAllHistory() at the time now: the list it returns
GetAllHistory(m, now) ==
    LET cleaned == Cleanup(m, now)
    IN IF cleaned.available
       THEN GetUsageHistory(cleaned.usage_history,
                            cleaned.maxHistoryAge \div 60000, now)
       ELSE cleaned.memoryHistory

\* p.<column> || otherwise: an absent key reads as undefined, and undefined
\* and 0 give way to the default.
Column(p, column, otherwise) ==
    IF column \in DOMAIN p /\ p[column] # 0 THEN p[column] ELSE otherwise

\* JSON.parse(p.operation_mix || "{}")
OperationMixOf(p) ==
    IF "operation_mix" \in DOMAIN p THEN JSONparse(p.operation_mix)
    ELSE EmptyMix

RECURSIVE Sum(_)
Sum(values) ==
    IF values = <<>> THEN 0 ELSE Head(values) + Sum(Tail(values))

\* calculateTrend(values): the slope of the regression line over the
\* indices 0..n-1, as the fraction num / denom with denom > 0, or 0 / 1.
CalculateTrend(values) ==
    LET n == Len(values)
        sumX == Sum([i \in 1..n |-> i - 1])
        sumY == Sum(values)
        sumXY == Sum([i \in 1..n |-> (i - 1) * values[i]])
        sumXX == Sum([i \in 1..n |-> (i - 1) * (i - 1)])
        denom == n * sumXX - sumX * sumX
    IN IF n < 2 \/ denom = 0 THEN [num |-> 0, denom |-> 1]
       ELSE [num |-> n * sumXY - sumX * sumY, denom |-> denom]

\* calculateRateOfChange(values): the mean change between neighbours of the
\* last ten values, as the fraction num / denom.
CalculateRateOfChange(values) ==
    LET recent == SliceLast(values, 10)
    IN IF Len(values) < 2 THEN [num |-> 0, denom |-> 1]
       ELSE [num |-> Sum([i \in 1..(Len(recent) - 1) |->
                              recent[i + 1] - recent[i]]),
             denom |-> Len(recent) - 1]

\* predictThresholdReach: whether predictions.cpuThreshold is set, and
\* whether the time it holds, (85 - currentCpu) / cpuRateOfChange, is
\* truthy and below the given limit.
CpuThresholdBelow(currentCpu, cpuRateOfChange, limit) ==
    /\ cpuRateOfChange.num > 0
    /\ currentCpu < 85
    /\ (85 - currentCpu) * cpuRateOfChange.denom > 0
    /\ (85 - currentCpu) * cpuRateOfChange.denom < limit * cpuRateOfChange.num

\* Object.values(mix).reduce((sum, count) => sum + count, 0)
RECURSIVE MixTotal(_)
MixTotal(mix) ==
    IF DOMAIN mix = {} THEN 0
    ELSE LET type == CHOOSE t \in DOMAIN mix : TRUE
         IN mix[type] + MixTotal([t \in DOMAIN mix \ {type} |-> mix[t]])

\* calculateIntensityChange(prevMix, currMix)
CalculateIntensityChange(prevMix, currMix) ==
    MixTotal(currMix) - MixTotal(prevMix)

\* analyzeOperationMixChanges(operationMixes): hasChanges and the changes
AnalyzeOperationMixChanges(operationMixes) ==
    LET recent == SliceLast(operationMixes, 5)
        changed == {i \in 2..Len(recent) :
                       DOMAIN recent[i] # DOMAIN recent[i - 1]}
    IN IF Len(operationMixes) < 2 THEN [hasChanges |-> FALSE, changes |-> {}]
       ELSE [hasChanges |-> changed # {},
             changes |-> {[timestamp |-> i - 1,
                           intensityChange |->
                               CalculateIntensityChange(recent[i - 1], recent[i])] :
                          i \in changed}]

\* analyzeUsageTrends() at the time now
AnalyzeUsageTrends(m, now) ==
    LET history == GetAllHistory(m, now)
        n == Len(history)
        cpuUsage == [i \in 1..n |-> Column(history[i], "cpu_usage", 0)]
        cpuTemp == [i \in 1..n |-> Column(history[i], "cpu_temp", 0)]
        memoryUsage == [i \in 1..n |-> Column(history[i], "memory_usage", 0)]
        threadCounts == [i \in 1..n |-> Column(history[i], "concurrent_threads", 1)]
        operationMixes == [i \in 1..n |-> OperationMixOf(history[i])]
    IN IF n < 10 THEN [hasEnoughData |-> FALSE, reason |-> "insufficient_data"]
       ELSE [hasEnoughData |-> TRUE,
             currentMetrics |-> [cpuUsage |-> cpuUsage[n],
                                 cpuTemp |-> cpuTemp[n],
                                 memoryUsage |-> memoryUsage[n],
                                 threadCount |-> threadCounts[n]],
             trends |-> [cpu |-> CalculateTrend(cpuUsage),
                         temp |-> CalculateTrend(cpuTemp),
                         memory |-> CalculateTrend(memoryUsage),
                         threads |-> CalculateTrend(threadCounts)],
             rateOfChange |-> [cpu |-> CalculateRateOfChange(cpuUsage),
                               temp |-> CalculateRateOfChange(cpuTemp)],
             operationMixAnalysis |-> AnalyzeOperationMixChanges(operationMixes),
             dataPoints |-> n,
             timeSpan |-> history[n].timestamp - history[1].timestamp]

\* A recommendation; the confidence is in hundredths, an urgency that is
\* not set is "".
ScalingRecommendation(action, reason, urgency, confidence) ==
    [action |-> action, reason |-> reason, urgency |-> urgency,
     confidence |-> confidence]

\* getScalingRecommendations(thresholds) at the time now
GetScalingRecommendations(m, thresholds, now) ==
    LET analysis == AnalyzeUsageTrends(m, now)
        currentMetrics == analysis.currentMetrics
        highCpuThreshold == IF thresholds.highCpuUsage # 0
                            THEN thresholds.highCpuUsage ELSE 85
        highTempThreshold == IF thresholds.highTemp # 0
                             THEN thresholds.highTemp ELSE 80
    IN IF ~analysis.hasEnoughData
       THEN ScalingRecommendation("maintain", "insufficient_data", "", 30)
       ELSE IF \/ currentMetrics.cpuUsage > highCpuThreshold
               \/ currentMetrics.cpuTemp > highTempThreshold
       THEN ScalingRecommendation("scale_down", "high_current_usage", "high", 90)
       ELSE IF CpuThresholdBelow(currentMetrics.cpuUsage,
                                 analysis.rateOfChange.cpu, 30)
       THEN ScalingRecommendation("scale_down", "predicted_threshold_reach",
                                  "medium", 70)
       ELSE IF /\ currentMetrics.cpuUsage < 50
               /\ currentMetrics.cpuTemp < 70
               /\ analysis.trends.cpu.num < 0
       THEN ScalingRecommendation("scale_up", "low_usage_stable_trend", "low", 60)
       ELSE ScalingRecommendation("maintain", "stable_conditions", "", 50)

\* The thresholds recommendThreadCount passes.
UsageThresholds ==
    [highCpuUsage |-> highThresholds.cpuUsage, highTemp |-> highThresholds.cpuTemp]

\* Two managers with the same options, one beside a store that opened and
\* one beside a store that did not, and the clock they read.
InitUsageHistory(maxHistoryAgeMinutes, maxDataPoints) ==
    /\ storeHistory = NewUsageHistoryManager(TRUE, maxHistoryAgeMinutes,
                                             maxDataPoints)
    /\ memoryHistory = NewUsageHistoryManager(FALSE, maxHistoryAgeMinutes,
                                              maxDataPoints)
    /\ usageClock = 0

\* ------------------------------------------------------------ the actions
\* The handler's result becomes the manager's state.
InstallManager(s) ==
    /\ maxConcurrentRequests' = s.maxConcurrentRequests
    /\ activeRequests' = s.activeRequests
    /\ requestQueue' = s.requestQueue
    /\ isProcessing' = s.isProcessing
    /\ requestHistory' = s.requestHistory
    /\ maxHistorySize' = s.maxHistorySize
    /\ emergencyBypassActive' = s.emergencyBypassActive
    /\ desiredThreadCount' = s.desiredThreadCount
    /\ requests' = s.requests

\* A handler of the admission manager leaves the supervisor alone.
Install(s) ==
    InstallManager(s) /\ UNCHANGED supervisorVars /\ UNCHANGED usageVars

\* The handler's result becomes the state of the whole.
InstallThreader(w) ==
    /\ scalingEngine' = w.scalingEngine
    /\ monitoringState' = w.monitoringState
    /\ tickInFlight' = w.tickInFlight
    /\ tick' = w.tick
    /\ isMonitoringActive' = w.isMonitoringActive
    /\ monitoringInterval' = w.monitoringInterval
    /\ timers' = w.timers
    /\ isInitialized' = w.isInitialized
    /\ tickErrors' = w.tickErrors
    /\ InstallManager(w.threadManager)
    /\ UNCHANGED usageVars

\* new ThreadManager(options)
NewThreadManager ==
    /\ maxConcurrentRequests = 1
    /\ activeRequests = 0
    /\ requestQueue = <<>>
    /\ isProcessing = FALSE
    /\ requestHistory = <<>>
    /\ maxHistorySize \in HistorySizes
    /\ emergencyBypassActive = FALSE
    /\ desiredThreadCount = <<>>
    /\ requests = <<>>

\* The manager as constructed, beside a usage history with the default
\* options.
InitManager == NewThreadManager /\ InitUsageHistory(5, 300)

\* new LLMThreader(options) without maxThreads
Init == InitManager /\ InitSupervisor(NoMaxThreads)

\* execute(operation, {priority, emergencyBypass, timeoutMs, signal}): the
\* request is created and queued; the inputs are drawn from the given sets.
Execute(count, priorities, emergencies, timeouts, signals) ==
    /\ Len(requests) < count
    /\ \E p \in priorities, e \in emergencies, t \in timeouts, sig \in signals :
          Install(QueueRequest(TM, LLMRequest(p, e, t, sig)))

\* updateThreadLimits(recommendedThreadCount)
UpdateLimits ==
    \E arg \in UpdateArgs :
        Install(UpdateThreadLimits(TM, arg))

\* The operation has settled; the race, if still pending, resolves with it.
Settle(s, id) ==
    [s EXCEPT !.requests[id].op = "settled",
              !.requests[id].race =
                  IF s.requests[id].race = "pending" THEN "settled"
                  ELSE s.requests[id].race]

\* The operation's promise fulfils: the chain calls completeRequest.
OnFulfilled(s, id) == CompleteRequest(Settle(s, id), id)

OperationResolves ==
    \E id \in 1..Len(requests) :
        /\ requests[id].op = "running"
        /\ Install(OnFulfilled(TM, id))

\* A promise of the race rejects: the race, if still pending, rejects with
\* that error and its catch handler is scheduled.
RejectRace(s, id, err) ==
    IF s.requests[id].race = "pending"
    THEN [s EXCEPT !.requests[id].race = "settled",
                   !.requests[id].raceError = err,
                   !.requests[id].pend = s.requests[id].pend \cup {"race"}]
    ELSE s

\* The operation's promise rejects: the chain's catch handler calls
\* failRequest and rethrows, which rejects the race.
OnRejected(s, id) ==
    FailRequest(RejectRace([s EXCEPT !.requests[id].op = "settled"], id, "operation"),
                id, "operation")

OperationRejects ==
    \E id \in 1..Len(requests) :
        /\ requests[id].op = "running"
        /\ Install(OnRejected(TM, id))

\* The timer of a started request fires before the race has settled: the race
\* rejects and, no other reaction being queued at a timer callback, its catch
\* handler calls failRequest before anything else runs.
TimeoutFires ==
    \E id \in 1..Len(requests) :
        /\ requests[id].timeoutMs > 0
        /\ requests[id].race = "pending"
        /\ Install(FailRequest([TM EXCEPT !.requests[id].race = "settled",
                                           !.requests[id].raceError = "timeout"],
                               id, "timeout"))

\* The caller aborts the request's signal: a started request whose race is
\* pending has its listener called; before the start nobody listens.
SignalAborts ==
    \E id \in 1..Len(requests) :
        /\ requests[id].signal = "armed"
        /\ Install(RejectRace([TM EXCEPT !.requests[id].signal = "aborted"],
                              id, "abort"))

\* The race's catch handler: failRequest(request.id, error).
RaceCatch ==
    \E id \in 1..Len(requests) :
        /\ "race" \in requests[id].pend
        /\ Install(FailRequest([TM EXCEPT !.requests[id].pend = @ \ {"race"}],
                               id, requests[id].raceError))

\* execute's catch handler on the rejected completion promise.
CancellationRuns ==
    \E id \in 1..Len(requests) :
        /\ "cancel" \in requests[id].pend
        /\ Install(Cancellation([TM EXCEPT !.requests[id].pend = @ \ {"cancel"}],
                                id, requests[id].error))

\* The admission manager under plain and emergency requests whose operations
\* fulfil or reject.  Priorities only order the queue (SpecOrder); timeouts
\* and signals only add ways to fail (SpecDeadline).
Next ==
    \/ Execute(MaxRequests, {0}, BOOLEAN, {0}, {FALSE})
    \/ UpdateLimits
    \/ OperationResolves
    \/ OperationRejects
    \/ RaceCatch
    \/ CancellationRuns

Spec == Init /\ [][Next]_vars

\* The order of dispatch under requests of every priority and emergency flag.
NextOrder ==
    \/ Execute(MaxRequests, Priorities, BOOLEAN, {0}, {FALSE})
    \/ UpdateLimits
    \/ OperationResolves

SpecOrder == Init /\ [][NextOrder]_vars

\* The request lifecycle when every request carries a timeout and a signal
\* (either of which may never fire), at the limit the manager is constructed
\* with.
NextDeadline ==
    \/ Execute(MaxDeadlineRequests, {0}, BOOLEAN, {50}, {TRUE})
    \/ OperationResolves
    \/ OperationRejects
    \/ TimeoutFires
    \/ SignalAborts
    \/ RaceCatch
    \/ CancellationRuns

SpecDeadline == Init /\ [][NextDeadline]_vars

\* A burst of plain requests, one more than the other specifications admit.
NextDrain ==
    \/ Execute(MaxDrainRequests, {0}, {FALSE}, {0}, {FALSE})
    \/ UpdateLimits
    \/ OperationResolves

SpecDrain == Init /\ [][NextDrain]_vars

\* ------------------------------------------------- the supervisor's actions
Systems == {CoolSystem, WarmSystem, HotSystem, BusySystem, HotGpuSystem}

\* One system of each kind: no emergency, near emergency, emergency.
SystemKinds == {CoolSystem, WarmSystem, HotSystem}

\* operationMixWithContext.currentIntensity in tenths
Intensities == {0, 10}

IntensityLevels == {0, 5, 10}

\* The loads a getQueueMetrics callback reports.
Loads ==
    {QueueMetrics(0, 0, FALSE), QueueMetrics(0, 1, FALSE), QueueMetrics(1, 2, FALSE)}

\* monitorSystemWithScaling() from its call to its return, on the state w.
RunTick(w, systemInfo, queueMetrics, intensity, env) ==
    LET i == Len(w.tick) + 1
    IN Decide(RecordTelemetry(StartTick(w), i, systemInfo, queueMetrics),
              i, intensity, env)

\* monitorSystemWithScaling() run to its end with nothing in between: the
\* telemetry, the load and the intensity are drawn from the given sets.
MonitorTick(maxTicks, systems, loads, intensities) ==
    /\ ~tickInFlight
    /\ NextStamp(monitoringState.systemMetrics) <= maxTicks
    /\ \E systemInfo \in systems, queueMetrics \in loads, intensity \in intensities :
          \E env \in Environments(scalingEngine,
                                   IsEmergency(systemInfo) \/ IsNearEmergency(systemInfo),
                                   queueMetrics.measured) :
              InstallThreader(RunTick(LT, systemInfo, queueMetrics, intensity, env))

\* The supervisor and the engine, with or without maxThreads, under every
\* telemetry and load.
InitEngine ==
    /\ InitManager
    /\ maxHistorySize = 100
    /\ \E maxThreads \in {NoMaxThreads} \cup 1..MaxConfiguredThreads :
          InitSupervisor(maxThreads)

NextEngine ==
    MonitorTick(MaxEngineTicks, SystemKinds, Loads, Intensities)

SpecEngine == InitEngine /\ [][NextEngine]_vars

\* ------------------------------------ the supervisor's tick, step by step
\* initialize()
InitializeCall == InstallThreader(Initialize(LT))

\* shutdown()
ShutdownCall == InstallThreader(Shutdown(LT))

\* execute(operation): initialize() resolves without leaving the call, and
\* what can run before the request is queued (shutdown, another execute)
\* touches nothing the queueing reads, so the call is one step.
ExecuteCall(count) ==
    /\ Len(requests) < count
    /\ InstallThreader(ThreaderExecute(LT, LLMRequest(0, FALSE, 0, FALSE)))

\* An interval timer that is set fires: its callback calls
\* monitorSystemWithScaling, which runs to its first await.
TimerFires(maxTicks) ==
    /\ NextStamp(monitoringState.systemMetrics) <= maxTicks
    /\ \E handle \in timers :
          InstallThreader(StartTick(LT))

\* getEnhancedSystemInfo resolves: the tick records the telemetry and reads
\* the queue metrics of the manager.
TelemetryArrives(systems) ==
    \E i \in 1..Len(tick), systemInfo \in systems :
        /\ tick[i].pc = "telemetry"
        /\ InstallThreader(RecordTelemetry(LT, i, systemInfo, GetQueueMetrics(TM)))

\* The engine's answer arrives and the tick runs to its end.
EngineDecides(intensities) ==
    \E i \in 1..Len(tick), intensity \in intensities :
        /\ tick[i].pc = "engine"
        /\ \E env \in Environments(scalingEngine,
                                    \/ IsEmergency(tick[i].systemInfo[1])
                                    \/ IsNearEmergency(tick[i].systemInfo[1]),
                                    tick[i].queueMetrics[1].measured) :
              InstallThreader(Decide(LT, i, intensity, env))

\* What the tick awaits rejects (the telemetry, the queue metrics callback,
\* the engine): the tick throws into the timer callback.
TickThrows(maxErrors) ==
    /\ tickErrors < maxErrors
    /\ \E i \in 1..Len(tick) :
          InstallThreader(CatchTickError(LT, i))

\* LLMThreader under initialize, execute and shutdown in any order, with the
\* timer firing while a tick is in progress and ticks that throw.
InitThreader == Init /\ maxHistorySize = 100

NextSupervisor ==
    \/ InitializeCall
    \/ ShutdownCall
    \/ ExecuteCall(MaxSupervisorRequests)
    \/ OperationResolves
    \/ TimerFires(MaxSupervisorTicks)
    \/ TelemetryArrives(SystemKinds)
    \/ EngineDecides({0})
    \/ TickThrows(MaxTickErrors)

SpecSupervisor == InitThreader /\ [][NextSupervisor]_vars

\* ------------------------------------------------- the rings over many ticks
\* A tick on which nothing has elapsed or changed but the cooldown: the
\* system is stable, the history supports the next level, no validation has
\* matured, the usage history says maintain.
SteadyEnvironment ==
    [now |-> Now(scalingEngine) + 1000,
     validationWindowMs |-> scaleCooldownMs,
     historySupports |-> TRUE,
     validation |-> "passed",
     usage |-> [action |-> "maintain", intensityChange |-> 0],
     recentHighDemand |-> FALSE,
     efficiency |-> [k \in MeasuredLevels(scalingEngine) |-> 0]]

\* monitorSystemWithScaling() run to its end on a cool system whose queue
\* reports the given load with measured throughput and latency.
SteadyTick(maxTicks, load) ==
    /\ ~tickInFlight
    /\ NextStamp(monitoringState.systemMetrics) <= maxTicks
    /\ InstallThreader(RunTick(LT, CoolSystem, load, 0, SteadyEnvironment))

\* The threader with a request history of one entry.
InitRings == Init /\ maxHistorySize = 1

\* More ticks than the largest ring holds, and more requests than the
\* request history holds.
NextRings ==
    \/ SteadyTick(MaxRingTicks, QueueMetrics(1, 1, TRUE))
    \/ Execute(MaxRingRequests, {0}, {FALSE}, {0}, {FALSE})
    \/ OperationResolves

SpecRings == InitRings /\ [][NextRings]_vars

\* ================================================================ claims
Terminal == {"completed", "failed"}

ActiveEmergencies ==
    Cardinality({id \in 1..Len(requests) :
                    requests[id].status = "active" /\ requests[id].emergencyBypass})

\* C1 as stated: after every operation 0 <= activeRequests <=
\* maxConcurrentRequests and maxConcurrentRequests >= 1, emergency-bypass
\* submissions included.
C1_ActiveWithinLimit ==
    /\ 0 <= activeRequests
    /\ activeRequests <= maxConcurrentRequests
    /\ maxConcurrentRequests >= 1

\* C1 as amended: activeRequests >= 0, maxConcurrentRequests >= 1, and the
\* active requests that are not emergency-bypass requests stay within the
\* limit: activeRequests minus the number of active emergency requests is
\* below maxConcurrentRequests + 1.
C1_ActiveWithinLimitButEmergencies ==
    /\ 0 <= activeRequests
    /\ maxConcurrentRequests >= 1
    /\ activeRequests - ActiveEmergencies < maxConcurrentRequests + 1

\* Both kinds of request are running past a limit that an update has set.
C1_Witness ==
    /\ maxConcurrentRequests = 2
    /\ activeRequests = 3
    /\ ActiveEmergencies = 1

\* C2: a request becomes active only from queued and never returns to
\* queued; once completed or failed, its status, result, error and the outcome
\* of its completion promise never change again.
C2_TerminalIsFinal ==
    [][\A id \in 1..Len(requests) :
          /\ requests[id].status \in Terminal =>
                /\ requests'[id].status = requests[id].status
                /\ requests'[id].result = requests[id].result
                /\ requests'[id].error = requests[id].error
                /\ requests'[id].promise = requests[id].promise
          /\ requests[id].promise # "pending" =>
                requests'[id].promise = requests[id].promise
          /\ requests[id].status # "queued" => requests'[id].status # "queued"
          /\ (requests'[id].status = "active" /\ requests[id].status # "active") =>
                requests[id].status = "queued"]_vars

\* One request failed by its timeout and its operation settled afterwards; the
\* other failed by its operation, reported by the chain and by the race; every
\* scheduled reaction has run.
C2_Witness ==
    \E a, b \in 1..Len(requests) :
        /\ requests[a].status = "failed" /\ requests[a].error = "timeout"
        /\ requests[a].op = "settled" /\ requests[a].pend = {}
        /\ requests[b].status = "failed" /\ requests[b].error = "operation"
        /\ requests[b].raceError = "operation" /\ requests[b].pend = {}

\* C3: once every operation that was invoked has settled and every reaction
\* has run, each request is terminal with its promise settled, the queue is
\* empty and activeRequests is 0, whatever maxHistorySize is.
C3_SettledMeansDrained ==
    (\A id \in 1..Len(requests) :
        requests[id].op # "running" /\ requests[id].pend = {})
    => /\ requestQueue = <<>>
       /\ activeRequests = 0
       /\ \A id \in 1..Len(requests) :
             requests[id].status \in Terminal /\ requests[id].promise # "pending"

\* a goes before b in the order of dispatch: emergency first, then higher
\* priority, then earlier submission.
DispatchedBefore(reqs, a, b) ==
    \/ reqs[a].emergencyBypass /\ ~reqs[b].emergencyBypass
    \/ /\ reqs[a].emergencyBypass = reqs[b].emergencyBypass
       /\ \/ reqs[a].priority > reqs[b].priority
          \/ reqs[a].priority = reqs[b].priority /\ a < b

\* C4: every request a step starts goes, in the order (emergency, priority,
\* submission), before every request the step leaves queued; requests started
\* by the same step are started in that order, and the queue is kept in it.
C4_DispatchOrder ==
    [][LET startedNow == {id \in 1..Len(requests') :
                             /\ requests'[id].status = "active"
                             /\ id <= Len(requests) => requests[id].status = "queued"}
       IN /\ \A id \in startedNow : \A j \in 1..Len(requestQueue') :
                DispatchedBefore(requests', id, requestQueue'[j])
          /\ \A i, j \in 1..Len(requestHistory') :
                (/\ i < j
                 /\ requestHistory'[i] \in startedNow
                 /\ requestHistory'[j] \in startedNow)
                => DispatchedBefore(requests', requestHistory'[i], requestHistory'[j])
          /\ \A i, j \in 1..Len(requestQueue') :
                i < j => DispatchedBefore(requests', requestQueue'[i], requestQueue'[j])]_vars

\* A request of higher priority, submitted later, runs while an earlier one of
\* lower priority still waits.
C4_Witness ==
    \E a, b \in 1..Len(requests) :
        /\ a < b
        /\ requests[a].status = "queued" /\ requests[b].status = "active"
        /\ ~requests[a].emergencyBypass /\ ~requests[b].emergencyBypass
        /\ requests[b].priority > requests[a].priority

\* C5 as stated: updateThreadLimits(n) with n below the number of active
\* requests sets the limit to activeRequests and remembers n as the desired
\* limit.
C5_DefersEveryLowerLimit ==
    \A n \in 1..MaxRequests :
        n < activeRequests =>
            LET after == UpdateThreadLimits(TM, Num(n))
            IN /\ after.maxConcurrentRequests = activeRequests
               /\ after.desiredThreadCount = <<n>>

\* What a completion or failure handler leaves of the deferred scale-down:
\* a request it does not find changes nothing; otherwise the remembered limit
\* becomes the limit exactly when the active count has come down to it.
C5_AfterTerminal(after, id) ==
    IF after.requests[id].status = requests[id].status
    THEN /\ after.desiredThreadCount = desiredThreadCount
         /\ after.maxConcurrentRequests = maxConcurrentRequests
    ELSE IF /\ desiredThreadCount # <<>>
            /\ activeRequests - 1 <= desiredThreadCount[1]
         THEN /\ after.maxConcurrentRequests = desiredThreadCount[1]
              /\ after.desiredThreadCount = <<>>
         ELSE /\ after.desiredThreadCount = desiredThreadCount
              /\ after.maxConcurrentRequests = maxConcurrentRequests

\* C5 as amended: let m be the limit the call asks for after sanitising and,
\* while emergencyBypassActive, after raising it to cover the emergency
\* requests (up to 2).  The call changes no request; if m is below both
\* maxConcurrentRequests and activeRequests, the limit becomes activeRequests
\* and m is remembered, otherwise nothing is remembered (a later call so
\* replaces the remembered value).  The remembered value becomes the limit
\* exactly at the first completion or failure that finds its request and
\* leaves activeRequests <= it; queueing a request leaves it alone.
C5_DeferredScaleDown ==
    /\ \A arg \in UpdateArgs :
          LET m == RequestedLimit(TM, arg)
              after == UpdateThreadLimits(TM, arg)
          IN /\ \A id \in 1..Len(requests) :
                   after.requests[id].status \in Terminal
                       => requests[id].status \in Terminal
             /\ IF m < maxConcurrentRequests /\ m < activeRequests
                THEN /\ after.maxConcurrentRequests = activeRequests
                     /\ after.desiredThreadCount = <<m>>
                     /\ after.activeRequests = activeRequests
                     /\ after.requests = requests
                ELSE after.desiredThreadCount = <<>>
    /\ \A id \in 1..Len(requests) :
          requests[id].op = "running" =>
             /\ C5_AfterTerminal(OnFulfilled(TM, id), id)
             /\ C5_AfterTerminal(OnRejected(TM, id), id)
    /\ \A e \in BOOLEAN :
          QueueRequest(TM, LLMRequest(0, e, 0, FALSE)).desiredThreadCount
              = desiredThreadCount

\* A scale-down to 1 is remembered while three requests run at a limit of 3.
C5_Witness ==
    /\ desiredThreadCount = <<1>>
    /\ activeRequests = 3
    /\ maxConcurrentRequests = 3

\* C6: while a scale-down is deferred, no step starts a request that is not
\* an emergency-bypass request.
C6_NoDispatchWhileDeferred ==
    [][(desiredThreadCount # <<>> /\ desiredThreadCount' # <<>>) =>
          \A id \in 1..Len(requests') :
              (/\ requests'[id].status = "active"
               /\ id <= Len(requests) => requests[id].status = "queued")
              => requests'[id].emergencyBypass]_vars

\* C7: an emergency request queued while activeRequests >= the limit is
\* active when queueRequest returns, the limit is what it was, and
\* onScalingUpdate was not called.
C7_BypassIsTransientAndSilent ==
    activeRequests >= maxConcurrentRequests =>
        LET after == QueueRequest(TM, LLMRequest(0, TRUE, 0, FALSE))
        IN /\ after.requests[Len(requests) + 1].status = "active"
           /\ after.maxConcurrentRequests = maxConcurrentRequests
           /\ after.calls = <<>>

\* An emergency request runs beside a plain one at a limit of 1.
C7_Witness ==
    /\ maxConcurrentRequests = 1
    /\ activeRequests = 2
    /\ \E a, b \in 1..Len(requests) :
          /\ requests[a].status = "active" /\ ~requests[a].emergencyBypass
          /\ requests[b].status = "active" /\ requests[b].emergencyBypass
          /\ a < b

\* C8: at most maxConcurrentRequests + 1 requests are active, and at most 2
\* when the limit is 1.
C8_BypassExceedsByOne ==
    /\ activeRequests <= maxConcurrentRequests + 1
    /\ maxConcurrentRequests = 1 => activeRequests <= 2

\* C9: in every state, updateThreadLimits(x) called twice in a row calls
\* onScalingUpdate at most once in total.
C9_SecondUpdateIsSilent ==
    \A arg \in UpdateArgs :
        LET first == UpdateThreadLimits(TM, arg)
            second == UpdateThreadLimits([first EXCEPT !.calls = <<>>], arg)
        IN Len(first.calls) + Len(second.calls) <= 1

\* A scale-down is deferred while an emergency request runs, and some call
\* would change the limit.
C9_Witness ==
    /\ desiredThreadCount # <<>>
    /\ emergencyBypassActive
    /\ \E arg \in UpdateArgs : Len(UpdateThreadLimits(TM, arg).calls) = 1

\* C10: the limit is a finite number >= 1 after every call.
C10_LimitIsFinite ==
    /\ maxConcurrentRequests >= 1
    /\ maxConcurrentRequests < Infinity

\* C11: a queued request whose cancellation signal has fired is never started:
\* no later step invokes its operation or counts it as active.
C11_CancelledInQueueNeverStarts ==
    [][\A id \in 1..Len(requests) :
          (requests[id].status = "queued" /\ requests[id].signal = "aborted")
          => /\ requests'[id].op = "idle"
             /\ requests'[id].status # "active"]_vars

\* The requests this step has started.
StartedNow ==
    {id \in 1..Len(requests') :
        /\ requests'[id].status = "active"
        /\ id <= Len(requests) => requests[id].status = "queued"}

\* C12: when the timeout of an active request fires before its operation
\* settles, the step leaves the request failed with the timeout error and
\* activeRequests one lower, apart from the requests the dispatcher starts in
\* the same step.
C12_DeadlineFailsOnce ==
    [][\A id \in 1..Len(requests) :
          (/\ requests[id].status = "active"
           /\ requests[id].op = "running"
           /\ requests[id].race = "pending"
           /\ requests'[id].raceError = "timeout")
          => /\ requests'[id].status = "failed"
             /\ requests'[id].error = "timeout"
             /\ activeRequests' = activeRequests - 1 + Cardinality(StartedNow)]_vars

\* The recommendation of a tick run on the current state.
Recommendation(systemInfo, queueMetrics, intensity, env) ==
    RunTick(LT, systemInfo, queueMetrics, intensity, env)
        .monitoringState.recommendedThreadCount

\* C13: on every tick whose telemetry is at or above an emergency limit
\* (CPU temperature, CPU usage, GPU temperature or usage) the recommendation
\* is 1, on the first such tick and under unmet demand too.
C13_EmergencyClampsToOne ==
    ~tickInFlight =>
        \A systemInfo \in Systems, queueMetrics \in Loads, intensity \in Intensities :
            IsEmergency(systemInfo) =>
                \A env \in Environments(scalingEngine, TRUE, queueMetrics.measured) :
                    Recommendation(systemInfo, queueMetrics, intensity, env) = 1

\* C14: with maxThreads configured as M, the recommendation of every tick, in
\* every environment and for every intensity from 0 to 1, is at most M, and
\* so are the counts the supervisor holds.
C14_RecommendationWithinMaxThreads ==
    (~scalingEngine.useOptimalMaxThreads /\ ~tickInFlight) =>
        /\ monitoringState.recommendedThreadCount <= scalingEngine.defaultMaxThreads
        /\ monitoringState.currentThreadCount <= scalingEngine.defaultMaxThreads
        /\ \A systemInfo \in SystemKinds, queueMetrics \in Loads,
              intensity \in IntensityLevels :
              \A env \in Environments(scalingEngine,
                                      IsEmergency(systemInfo) \/ IsNearEmergency(systemInfo),
                                      queueMetrics.measured) :
                  Recommendation(systemInfo, queueMetrics, intensity, env)
                      <= scalingEngine.defaultMaxThreads

\* The engine has climbed to a configured maximum of 2 and awaits the
\* validation of that step.
C14_Witness ==
    /\ scalingEngine.defaultMaxThreads = 2
    /\ monitoringState.recommendedThreadCount = 2
    /\ scalingEngine.pendingScaleUpValidation # <<>>
    /\ scalingEngine.pendingScaleUpValidation[1].targetThreads = 2

\* C15: the user's onScalingUpdate callback is called exactly once for each
\* change of the limit: when the supervisor reports a new thread count, the
\* user's callback is called once if the limit changes by it, and not at all
\* while the change is deferred.
C15_OneCallPerLimitChange ==
    \A newThreads, oldThreads \in 1..MaxRequests :
        newThreads # oldThreads =>
            LET after == OnScalingUpdate(LT, newThreads, oldThreads)
            IN Len(after.userCalls) =
                   IF after.threadManager.maxConcurrentRequests # maxConcurrentRequests
                   THEN 1 ELSE 0

\* C16: the tick is single-flight: at no time are two executions of
\* monitorSystemWithScaling in progress, and a tick that is fired while
\* another one is in flight returns without changing any state.
C16_SingleFlight ==
    /\ Len(tick) <= 1
    /\ tickInFlight => StartTick(LT) = LT

\* A tick awaits the engine while the interval timer is set and may fire.
C16_Witness ==
    /\ tickInFlight
    /\ timers # {}
    /\ Len(tick) = 1
    /\ tick[1].pc = "engine"
    /\ NextStamp(monitoringState.systemMetrics) <= MaxSupervisorTicks

\* C17: the control loop never dies: the in-flight flag is set only while a
\* tick is in progress, and when a tick throws the error is caught by the
\* timer callback, the flag is cleared, the timer stays set, and the next
\* tick that is fired runs.
C17_LoopSurvivesErrors ==
    /\ tick = <<>> => ~tickInFlight
    /\ \A i \in 1..Len(tick) :
          LET after == CatchTickError(LT, i)
          IN /\ ~after.tickInFlight
             /\ after.timers = timers
             /\ after.tickErrors = tickErrors + 1
             /\ StartTick(after).tickInFlight
             /\ Len(StartTick(after).tick) = Len(after.tick) + 1

\* A tick has thrown, and a later tick has got as far as the engine.
C17_Witness ==
    /\ tickErrors > 0
    /\ Len(tick) = 1
    /\ tick[1].pc = "engine"

\* C18: start and stop are idempotent: at most one interval timer is set at
\* any time, and it is the one the supervisor holds; initialize() starts
\* exactly one timer however often it is called, and shutdown() changes
\* nothing when the threader is shut down already.
C18_OneTicker ==
    /\ Cardinality(timers) <= 1
    /\ timers = IF monitoringInterval = 0 THEN {} ELSE {monitoringInterval}
    /\ Cardinality(Initialize(LT).timers) = 1
    /\ Initialize(Initialize(LT)) = Initialize(LT)
    /\ Shutdown(Shutdown(LT)) = Shutdown(LT)
    /\ ~isInitialized => Shutdown(LT) = LT

\* The threader has been shut down after it had run requests and a tick,
\* and is started again.
C18_Witness ==
    /\ isInitialized
    /\ timers # {}
    /\ Len(requests) = MaxSupervisorRequests
    /\ tickErrors > 0
    /\ monitoringState.systemMetrics # <<>>

\* What a findOptimalThreadCount may hand to the supervisor.
EngineResults ==
    {MissingResult}
        \cup {ScalingResult(r, "engine") :
                r \in {Num(2), Num(0), Num(-1), Num(Infinity),
                       NaNArg, StrArg, UndefinedArg}}

FinitePositive(scalingResult) ==
    /\ ~scalingResult.missing
    /\ scalingResult.recommendedThreads.type = "number"
    /\ ~scalingResult.recommendedThreads.nan
    /\ scalingResult.recommendedThreads.val >= 1
    /\ scalingResult.recommendedThreads.val < Infinity

RingStep(old, new, bound) ==
    \/ new = old
    \/ /\ Len(old) < bound
       /\ Len(new) = Len(old) + 1
       /\ SubSeq(new, 1, Len(old)) = old
    \/ /\ Len(old) = bound
       /\ Len(new) = bound
       /\ SubSeq(new, 1, bound - 1) = Tail(old)

\* C20: every history ring stays within its bound after every append and
\* drops its oldest entry first: the supervisor's metrics (120), the engine's
\* performance history (200) and demand history (50), the window of every
\* thread count (20), the request history (maxHistorySize).
C20_RingsBounded ==
    [][/\ RingStep(monitoringState.systemMetrics,
                   monitoringState'.systemMetrics, maxMetricsHistory)
       /\ RingStep(scalingEngine.performanceHistory,
                   scalingEngine'.performanceHistory, maxPerformanceHistory)
       /\ RingStep(scalingEngine.demandHistory,
                   scalingEngine'.demandHistory, maxDemandHistory)
       /\ \A w \in scalingEngine'.performanceByThreadCount :
             RingStep(Samples(scalingEngine, w.threadCount), w.samples,
                      maxThreadSamples)
       /\ MeasuredLevels(scalingEngine) \subseteq MeasuredLevels(scalingEngine')
       /\ RingStep(requestHistory, requestHistory', maxHistorySize)]_vars

\* Every ring is full and has dropped entries.
C20_Witness ==
    /\ Len(monitoringState.systemMetrics) = maxMetricsHistory
    /\ monitoringState.systemMetrics[1] > 1
    /\ Len(scalingEngine.performanceHistory) = maxPerformanceHistory
    /\ scalingEngine.performanceHistory[1] > 1
    /\ Len(scalingEngine.demandHistory) = maxDemandHistory
    /\ scalingEngine.demandHistory[1] > 1
    /\ \E w \in scalingEngine.performanceByThreadCount :
          /\ Len(w.samples) = maxThreadSamples
          /\ w.samples[1] > maxThreadSamples
    /\ Len(requestHistory) = maxHistorySize
    /\ requestHistory[1] > 1

\* C22: the recommendation of a tick is never more than max(backlog, 1) for
\* the backlog the tick recorded.
C22_RecommendationWithinBacklog ==
    (~tickInFlight /\ scalingEngine.latestPerformance # <<>>) =>
        monitoringState.recommendedThreadCount
            <= Max(scalingEngine.latestPerformance[1].backlog, 1)

\* C24: a recommendation higher than the one of the tick before is higher
\* by exactly one.
C24_RaisesByOne ==
    [][monitoringState'.recommendedThreadCount > monitoringState.recommendedThreadCount
          => monitoringState'.recommendedThreadCount
                 = monitoringState.recommendedThreadCount + 1]_vars

\* C25: whenever a tick changes the engine's recommendation, on any path,
\* lastScalingDecision becomes the time of the tick; a move upward leaves a
\* pending validation with the new level as target, the old one as baseline
\* and the time of the tick as start; a move to or below the baseline of the
\* pending validation clears it.
C25_ChangeIsRecorded ==
    [][scalingEngine'.lastRecommendedThreads # scalingEngine.lastRecommendedThreads
          => /\ scalingEngine'.lastScalingDecision = Now(scalingEngine')
             /\ scalingEngine'.lastRecommendedThreads > scalingEngine.lastRecommendedThreads
                  => /\ scalingEngine'.pendingScaleUpValidation # <<>>
                     /\ scalingEngine'.pendingScaleUpValidation[1].targetThreads
                            = scalingEngine'.lastRecommendedThreads
                     /\ scalingEngine'.pendingScaleUpValidation[1].baselineThreads
                            = scalingEngine.lastRecommendedThreads
                     /\ scalingEngine'.pendingScaleUpValidation[1].startedAt
                            = Now(scalingEngine')
             /\ (/\ scalingEngine.pendingScaleUpValidation # <<>>
                 /\ scalingEngine'.lastRecommendedThreads
                        <= scalingEngine.pendingScaleUpValidation[1].baselineThreads)
                  => scalingEngine'.pendingScaleUpValidation = <<>>]_vars

\* ------------------------------------------- emergencies over many ticks
\* The ticks of an engine without maxThreads whose telemetry is calm, near an
\* emergency or in one, 5 s apart, under a busy measured load; the usage
\* history says maintain, all levels score alike, the validation window is
\* the cooldown and the averages support the next level.
EmergencyGaps == {5000}

EmergencyLoads == {QueueMetrics(1, 1, TRUE)}

Maintain == [action |-> "maintain", intensityChange |-> 0]

EmergencyEnvironments(e, isEmergency) ==
    {env \in EnvironmentsWith(e, isEmergency, TRUE, EmergencyGaps, {Maintain}, {0}) :
        /\ env.validationWindowMs = scaleCooldownMs
        /\ env.historySupports
        /\ ~env.recentHighDemand}

EmergencyTick(maxTicks) ==
    /\ ~tickInFlight
    /\ NextStamp(monitoringState.systemMetrics) <= maxTicks
    /\ \E systemInfo \in SystemKinds, queueMetrics \in EmergencyLoads :
          \E env \in EmergencyEnvironments(
                         scalingEngine,
                         IsEmergency(systemInfo) \/ IsNearEmergency(systemInfo)) :
              InstallThreader(RunTick(LT, systemInfo, queueMetrics, 0, env))

InitEmergency ==
    /\ InitManager
    /\ maxHistorySize = 100
    /\ InitSupervisor(NoMaxThreads)

NextEmergency == EmergencyTick(MaxEmergencyTicks)

SpecEmergency == InitEmergency /\ [][NextEmergency]_vars

\* What findOptimalThreadCount returns on a tick run on the current state.
Found(systemInfo, queueMetrics, intensity, env) ==
    FindOptimalThreadCount(
        RecordPerformanceData(scalingEngine, monitoringState.currentThreadCount,
                              queueMetrics, env),
        IsEmergency(systemInfo), IsNearEmergency(systemInfo), intensity, env)

\* The environments of a tick in an emergency whose usage history says
\* maintain or scale_up.
OverrideEnvironments ==
    EnvironmentsWith(scalingEngine, TRUE, TRUE, EmergencyGaps,
                     {Maintain, [action |-> "scale_up", intensityChange |-> 0]}, {0})

\* C26: every tick in an emergency or near one raises consecutiveEmergencies
\* by one; when the raised counter is above 3 on an emergency tick, or above
\* 10 on a tick near an emergency, the tick returns 1 with the reason
\* emergency_override and confidence 1.0, whatever the validation, the
\* demand and the usage history say.
C26_EmergencyOverride ==
    ~tickInFlight =>
        \A systemInfo \in {WarmSystem, HotSystem, HotGpuSystem},
           queueMetrics \in EmergencyLoads :
            LET n == scalingEngine.consecutiveEmergencies + 1
                limit == IF IsEmergency(systemInfo) THEN 3 ELSE 10
            IN /\ \A env \in EmergencyEnvironments(scalingEngine, TRUE) :
                      Found(systemInfo, queueMetrics, 0, env)
                          .e.consecutiveEmergencies = n
               /\ n > limit =>
                      \A intensity \in Intensities, env \in OverrideEnvironments :
                          LET found == Found(systemInfo, queueMetrics, intensity, env)
                          IN /\ found.recommendedThreads = 1
                             /\ found.reason = "emergency_override"
                             /\ found.confidence = {100}

\* The eleventh tick near an emergency has ended in the override while the
\* validation of a scale-up had matured.
C26_Witness ==
    /\ scalingEngine.consecutiveEmergencies > 10
    /\ monitoringState.lastScalingDecision = "emergency_override"
    /\ Matured(scalingEngine)

\* C27: consecutiveEmergencies is reset to 0 only after 30 s without a tick
\* in an emergency or near one: a calm tick that follows such a tick by 5 s
\* does not reset it.
C27_ResetAfterStablePeriod ==
    ~tickInFlight =>
        \A systemInfo \in {WarmSystem, HotSystem}, queueMetrics \in EmergencyLoads :
            \A env1 \in EmergencyEnvironments(scalingEngine, TRUE) :
                LET w1 == RunTick(LT, systemInfo, queueMetrics, 0, env1)
                IN \A env2 \in EmergencyEnvironments(w1.scalingEngine, FALSE) :
                       RunTick(w1, CoolSystem, queueMetrics, 0, env2)
                           .scalingEngine.consecutiveEmergencies # 0

\* --------------------------------------- the optimum under sustained demand
\* The ticks of an engine without maxThreads on a system that is calm or
\* near an emergency, 1 s apart (the default intervalMs), under a busy
\* measured load whose intensity is 0 or 1;
\* the usage history says maintain, all levels score alike, the validation
\* window is the cooldown and the averages support the next level.
OptimumGaps == {1000}

OptimumLoads == {QueueMetrics(1, 1, TRUE)}

OptimumSystems == {CoolSystem, WarmSystem}

OptimumEnvironments(e) ==
    {env \in EnvironmentsWith(e, FALSE, TRUE, OptimumGaps, {Maintain}, {0}) :
        /\ env.validationWindowMs = scaleCooldownMs
        /\ env.historySupports
        /\ ~env.recentHighDemand}

OptimumTick(maxTicks) ==
    /\ ~tickInFlight
    /\ NextStamp(monitoringState.systemMetrics) <= maxTicks
    /\ \E systemInfo \in OptimumSystems, queueMetrics \in OptimumLoads,
          intensity \in Intensities :
          \E env \in OptimumEnvironments(scalingEngine) :
              InstallThreader(RunTick(LT, systemInfo, queueMetrics, intensity, env))

InitOptimum ==
    /\ InitManager
    /\ maxHistorySize = 100
    /\ InitSupervisor(NoMaxThreads)

NextOptimum == OptimumTick(MaxOptimumTicks)

SpecOptimum == InitOptimum /\ [][NextOptimum]_vars

\* C21: the optimum is never fixed at a level while no level above it has
\* been measured.
C21_OptimumHasMeasuredLevelAbove ==
    scalingEngine.optimalMaxThreads # <<>> =>
        \E k \in MeasuredLevels(scalingEngine) :
            k > scalingEngine.optimalMaxThreads[1]

\* C23: a tick that raises the recommendation is not followed by another
\* raise on either of the next two ticks, which are 1 s and 2 s later and so
\* within the cooldown of 10 s.
C23_NoRaiseWithinCooldown ==
    ~tickInFlight =>
        \A queueMetrics \in OptimumLoads, i1, i2, i3 \in Intensities :
            \A env1 \in OptimumEnvironments(scalingEngine) :
                LET w1 == RunTick(LT, CoolSystem, queueMetrics, i1, env1)
                IN w1.monitoringState.recommendedThreadCount
                       > monitoringState.recommendedThreadCount
                   => \A env2 \in OptimumEnvironments(w1.scalingEngine) :
                          LET w2 == RunTick(w1, CoolSystem, queueMetrics, i2, env2)
                          IN /\ w2.monitoringState.recommendedThreadCount
                                   <= w1.monitoringState.recommendedThreadCount
                             /\ \A env3 \in OptimumEnvironments(w2.scalingEngine) :
                                    RunTick(w2, CoolSystem, queueMetrics, i3, env3)
                                        .monitoringState.recommendedThreadCount
                                      <= w2.monitoringState.recommendedThreadCount

\* ------------------------------------------------ the optimum, once found
\* The ticks of an engine without maxThreads on a calm system, 5 s apart,
\* under an idle and a busy measured load; the usage history says maintain,
\* the validation window is the cooldown and the averages support the next
\* level; the validation passes or fails, the demand history holds high
\* demand or not, and the levels score one of three values.
HysteresisGaps == {5000}

HysteresisLoads == {QueueMetrics(0, 0, TRUE), QueueMetrics(1, 1, TRUE)}

\* Two scores closer than the margin of 5 and one further away.
HysteresisEfficiencies == {-6, -3, 0}

HysteresisEnvironments(e) ==
    {env \in EnvironmentsWith(e, FALSE, TRUE, HysteresisGaps, {Maintain},
                              HysteresisEfficiencies) :
        /\ env.validationWindowMs = scaleCooldownMs
        /\ env.historySupports}

HysteresisTick(maxTicks) ==
    /\ ~tickInFlight
    /\ NextStamp(monitoringState.systemMetrics) <= maxTicks
    /\ \E queueMetrics \in HysteresisLoads :
          \E env \in HysteresisEnvironments(scalingEngine) :
              InstallThreader(RunTick(LT, CoolSystem, queueMetrics, 0, env))

InitHysteresis ==
    /\ InitManager
    /\ maxHistorySize = 100
    /\ InitSupervisor(NoMaxThreads)

NextHysteresis == HysteresisTick(MaxHysteresisTicks)

SpecHysteresis == InitHysteresis /\ [][NextHysteresis]_vars

\* C30: a tick replaces the optimum only by a level that has at least
\* max(5, ceil(0.05 * |performanceHistory|)) samples, and replaces an optimum
\* that was set only by a level whose efficiency is at least the efficiency
\* of the previous optimum plus max(5, 0.02 * max(|prev|, |next|, 1)); in
\* every other case the optimum stays as it is.
C30_OptimumHysteresis ==
    ~tickInFlight =>
        \A queueMetrics \in HysteresisLoads :
            \A env \in EnvironmentsWith(scalingEngine, FALSE, TRUE, HysteresisGaps,
                                        {Maintain}, Efficiencies) :
                LET after == RecordPerformanceData(scalingEngine,
                                                   monitoringState.currentThreadCount,
                                                   queueMetrics, env)
                    prev == scalingEngine.optimalMaxThreads
                    next == after.optimalMaxThreads
                    required == Max(5, CeilDiv(5 * Len(after.performanceHistory), 100))
                    prevEfficiency ==
                        IF Len(Samples(after, prev[1])) >= required
                        THEN env.efficiency[prev[1]]
                        ELSE scalingEngine.currentOptimalEfficiency[1]
                    nextEfficiency == env.efficiency[next[1]]
                IN next # prev =>
                       /\ Len(Samples(after, next[1])) >= required
                       /\ prev # <<>> =>
                              50 * nextEfficiency
                                  >= 50 * prevEfficiency
                                       + Max(250, Max(Abs(prevEfficiency),
                                                      Max(Abs(nextEfficiency), 1)))

\* The optimum was 2 and has been replaced by 1.
C30_Witness ==
    /\ scalingEngine.optimalMaxThreads = <<1>>
    /\ Len(Samples(scalingEngine, 1)) >= 5
    /\ Len(Samples(scalingEngine, 2)) >= 5

\* The inputs of a tick run on a state of the emergency scenario: every kind
\* of telemetry, the busy load, an intensity of 0 or 1.
RollbackEnvironments(systemInfo) ==
    EnvironmentsWith(scalingEngine,
                     IsEmergency(systemInfo) \/ IsNearEmergency(systemInfo),
                     TRUE, EmergencyGaps, {Maintain}, {0})

\* The tick ends in the emergency override.
Overridden(systemInfo) ==
    \/ IsEmergency(systemInfo) /\ scalingEngine.consecutiveEmergencies + 1 > 3
    \/ /\ ~IsEmergency(systemInfo)
       /\ IsNearEmergency(systemInfo)
       /\ scalingEngine.consecutiveEmergencies + 1 > 10

\* The pending validation has, with the sample of this tick, the samples it
\* requires at its target, and the target's average cumulative time exceeds
\* the baseline's by more than the tolerance.
Regressed(queueMetrics, env) ==
    LET pending == scalingEngine.pendingScaleUpValidation[1]
        recorded == RecordPerformanceData(scalingEngine,
                                          monitoringState.currentThreadCount,
                                          queueMetrics, env)
    IN /\ scalingEngine.pendingScaleUpValidation # <<>>
       /\ Len(Samples(recorded, pending.targetThreads))
              >= pending.guardrails.samplesRequired
       /\ Samples(recorded, pending.baselineThreads) # <<>>
       /\ env.validation = "regressed"

\* The pending validation has the samples it requires or is older than its
\* window.
MaturedOrExpired(queueMetrics, env) ==
    LET pending == scalingEngine.pendingScaleUpValidation[1]
        recorded == RecordPerformanceData(scalingEngine,
                                          monitoringState.currentThreadCount,
                                          queueMetrics, env)
    IN /\ scalingEngine.pendingScaleUpValidation # <<>>
       /\ \/ Len(Samples(recorded, pending.targetThreads))
                 >= pending.guardrails.samplesRequired
          \/ env.now - pending.startedAt > pending.guardrails.validationWindowMs

\* C28 as stated: whenever the pending validation has matured with a
\* regression, the tick returns baselineThreads with the reason
\* validation_regression and confidence 0.85.
C28_RollbackWheneverRegressed ==
    ~tickInFlight =>
        \A systemInfo \in SystemKinds, queueMetrics \in EmergencyLoads,
           intensity \in Intensities :
            \A env \in RollbackEnvironments(systemInfo) :
                Regressed(queueMetrics, env) =>
                    LET found == Found(systemInfo, queueMetrics, intensity, env)
                    IN /\ found.recommendedThreads
                              = scalingEngine.pendingScaleUpValidation[1].baselineThreads
                       /\ found.reason = "validation_regression"
                       /\ found.confidence = {85}

\* C28, amended: on a tick that does not end in the emergency override, a
\* pending validation that has matured with a regression while the
\* recommendation is above its baseline makes the tick return the baseline,
\* capped by adjustedMaxThreads, with the reason validation_regression and
\* confidence 0.85, which is never above the previous recommendation; and a
\* pending validation that has matured or is older than its window is
\* cleared by the tick.
C28_Rollback ==
    ~tickInFlight =>
        \A systemInfo \in SystemKinds, queueMetrics \in EmergencyLoads,
           intensity \in Intensities :
            \A env \in RollbackEnvironments(systemInfo) :
                ~Overridden(systemInfo) =>
                    LET found == Found(systemInfo, queueMetrics, intensity, env)
                        pending == scalingEngine.pendingScaleUpValidation[1]
                        optimal == RecordPerformanceData(
                                       scalingEngine,
                                       monitoringState.currentThreadCount,
                                       queueMetrics, env).optimalMaxThreads
                        cap == AdjustedMaxThreads(
                                   IF optimal # <<>> THEN optimal[1] ELSE Infinity,
                                   intensity)
                    IN /\ (/\ Regressed(queueMetrics, env)
                           /\ scalingEngine.lastRecommendedThreads
                                  > pending.baselineThreads)
                          => /\ found.recommendedThreads
                                    = Max(1, Min(cap, pending.baselineThreads))
                             /\ found.reason = "validation_regression"
                             /\ found.confidence = {85}
                             /\ found.recommendedThreads
                                    <= scalingEngine.lastRecommendedThreads
                       /\ MaturedOrExpired(queueMetrics, env)
                          => found.e.pendingScaleUpValidation
                                 # scalingEngine.pendingScaleUpValidation

\* The engine has rolled back from 2 to 1.
C28_Witness ==
    /\ monitoringState.lastScalingDecision = "validation_regression"
    /\ monitoringState.recommendedThreadCount = 1
    /\ scalingEngine.pendingScaleUpValidation = <<>>
    /\ Len(Samples(scalingEngine, 2)) >= 2

\* ------------------------------------------- the optimum moves downward
\* The ticks of the scenario above over a longer run, in which every
\* validation passes and the levels score one of two values.
DescentEfficiencies == {-6, 0}

DescentEnvironments(e) ==
    {env \in EnvironmentsWith(e, FALSE, TRUE, HysteresisGaps, {Maintain},
                              DescentEfficiencies) :
        /\ env.validationWindowMs = scaleCooldownMs
        /\ env.historySupports
        /\ env.validation = "passed"}

DescentTick(maxTicks) ==
    /\ ~tickInFlight
    /\ NextStamp(monitoringState.systemMetrics) <= maxTicks
    /\ \E queueMetrics \in HysteresisLoads :
          \E env \in DescentEnvironments(scalingEngine) :
              InstallThreader(RunTick(LT, CoolSystem, queueMetrics, 0, env))

NextDescent == DescentTick(MaxDescentTicks)

SpecDescent == InitHysteresis /\ [][NextDescent]_vars

RetentionGaps == {20000, 40000}

\* recordPerformanceData appends usage data, some time after the last call.
AppendUsage(samples, gaps, horizon) ==
    \E usageData \in samples, gap \in gaps :
        /\ usageClock + gap <= horizon
        /\ usageClock' = usageClock + gap
        /\ storeHistory' = AddUsageData(storeHistory, usageData, usageClock')
        /\ memoryHistory' = AddUsageData(memoryHistory, usageData, usageClock')
        /\ UNCHANGED <<managerVars, supervisorVars>>

\* getAllHistory() is called, some time after the last call: it cleans up.
ReadUsage(gaps, horizon) ==
    \E gap \in gaps :
        /\ usageClock + gap <= horizon
        /\ usageClock' = usageClock + gap
        /\ storeHistory' = Cleanup(storeHistory, usageClock')
        /\ memoryHistory' = Cleanup(memoryHistory, usageClock')
        /\ UNCHANGED <<managerVars, supervisorVars>>

InitRetention ==
    /\ NewThreadManager
    /\ maxHistorySize = 100
    /\ InitSupervisor(NoMaxThreads)
    /\ InitUsageHistory(1, 2)

NextRetention ==
    \/ AppendUsage({IdleUsage, BusyUsage}, RetentionGaps,
                   MaxRetentionSteps * 20000)
    \/ ReadUsage(RetentionGaps, MaxRetentionSteps * 20000)

SpecRetention == InitRetention /\ [][NextRetention]_vars

\* C31: at every time, with the store and with the in-memory fallback, the
\* list getAllHistory() returns holds at most maxDataPoints samples and no
\* sample older than maxHistoryAge.
C31_HistoryWithinLimits ==
    \A m \in {storeHistory, memoryHistory} :
        \A gap \in RetentionGaps \cup {0} :
            LET now == usageClock + gap
                history == GetAllHistory(m, now)
            IN /\ Len(history) <= m.maxDataPoints
               /\ \A i \in 1..Len(history) :
                      history[i].timestamp >= now - m.maxHistoryAge

\* ----------------------------------------------- the trend recommendation
\* A sample is appended every second to managers with the default options
\* (five minutes, 300 samples), so that nothing is evicted.
TrendGaps == {1000}

UsageKinds == {IdleUsage, BusyUsage, RisingUsage, HotUsage}

InitTrend == Init /\ maxHistorySize = 100

NextTrend == AppendUsage({IdleUsage, BusyUsage}, TrendGaps, MaxTrendAppends * 1000)

SpecTrend == InitTrend /\ [][NextTrend]_vars

\* The samples a manager holds, with the values they were appended with,
\* whichever keys they are stored under.
AppendedValues(m, now, camelCase, snake_case) ==
    LET history == GetAllHistory(m, now)
    IN [i \in 1..Len(history) |->
           IF camelCase \in DOMAIN history[i] THEN history[i][camelCase]
           ELSE history[i][snake_case]]

\* The decision table of the claim over the appended values.
DecisionTable(m, thresholds, now) ==
    LET cpu == AppendedValues(m, now, "cpuUsage", "cpu_usage")
        temp == AppendedValues(m, now, "cpuTemp", "cpu_temp")
        n == Len(cpu)
    IN IF n < 10
       THEN ScalingRecommendation("maintain", "insufficient_data", "", 30)
       ELSE IF cpu[n] > thresholds.highCpuUsage \/ temp[n] > thresholds.highTemp
       THEN ScalingRecommendation("scale_down", "high_current_usage", "high", 90)
       ELSE IF CpuThresholdBelow(cpu[n], CalculateRateOfChange(cpu), 30)
       THEN ScalingRecommendation("scale_down", "predicted_threshold_reach",
                                  "medium", 70)
       ELSE IF cpu[n] < 50 /\ temp[n] < 70 /\ CalculateTrend(cpu).num < 0
       THEN ScalingRecommendation("scale_up", "low_usage_stable_trend", "low", 60)
       ELSE ScalingRecommendation("maintain", "stable_conditions", "", 50)

\* C32: after any sample is appended, to either manager, the recommendation
\* is the one the decision table gives for the samples that were appended.
C32_RecommendationFollowsTable ==
    \A m \in {storeHistory, memoryHistory} :
        \A usageData \in UsageKinds, gap \in TrendGaps :
            LET now == usageClock + gap
                appended == AddUsageData(m, usageData, now)
            IN GetScalingRecommendations(appended, UsageThresholds, now)
                   = DecisionTable(appended, UsageThresholds, now)

\* C33: after the same samples are appended to both managers, the two expose
\* the same metric values for every sample and yield the same trend analysis
\* and the same recommendation.
C33_FallbackEquivalent ==
    \A usageData \in UsageKinds, gap \in TrendGaps :
        LET now == usageClock + gap
            store == AddUsageData(storeHistory, usageData, now)
            memory == AddUsageData(memoryHistory, usageData, now)
            rows == GetAllHistory(store, now)
            points == GetAllHistory(memory, now)
        IN /\ Len(rows) = Len(points)
           /\ \A i \in 1..Len(rows) :
                  /\ Column(rows[i], "cpu_usage", 0) = Column(points[i], "cpu_usage", 0)
                  /\ Column(rows[i], "cpu_temp", 0) = Column(points[i], "cpu_temp", 0)
                  /\ Column(rows[i], "memory_usage", 0)
                         = Column(points[i], "memory_usage", 0)
                  /\ Column(rows[i], "concurrent_threads", 1)
                         = Column(points[i], "concurrent_threads", 1)
           /\ AnalyzeUsageTrends(store, now) = AnalyzeUsageTrends(memory, now)
           /\ GetScalingRecommendations(store, UsageThresholds, now)
                  = GetScalingRecommendations(memory, UsageThresholds, now)

\* -------------------------------------------------- no emergency requests
\* The admission manager when no request is submitted with emergencyBypass:
\* requests with and without a timeout, whose operations fulfil or reject,
\* and limit updates with every argument.
NextPlain ==
    \/ Execute(MaxRequests, {0}, {FALSE}, {0, 50}, {FALSE})
    \/ UpdateLimits
    \/ OperationResolves
    \/ OperationRejects
    \/ TimeoutFires
    \/ RaceCatch
    \/ CancellationRuns

SpecPlain == Init /\ [][NextPlain]_vars

C35_WorkConserving ==
    ~isProcessing =>
        (requestQueue # <<>> => activeRequests >= maxConcurrentRequests)

\* The first request has completed, its completion has started the second,
\* and the third waits at a limit of 1.
C35_Witness ==
    /\ Len(requests) = 3
    /\ requests[1].status = "completed"
    /\ requests[2].status = "active"
    /\ requestQueue = <<3>>
    /\ activeRequests = 1
    /\ maxConcurrentRequests = 1

\* C36: in every state, an emergency request of any priority, with or
\* without a timeout and a signal, is active and no longer queued when
\* queueRequest returns.
C36_EmergencyNeverWaits ==
    \A priority \in Priorities, timeoutMs \in {0, 50}, hasSignal \in BOOLEAN :
        LET after == QueueRequest(TM, LLMRequest(priority, TRUE, timeoutMs,
                                                 hasSignal))
            id == Len(requests) + 1
        IN /\ after.requests[id].status = "active"
           /\ \A i \in 1..Len(after.requestQueue) : after.requestQueue[i] # id
           /\ after.activeRequests = activeRequests + 1

\* Three emergency requests run at a limit of 1.
C36_Witness ==
    /\ maxConcurrentRequests = 1
    /\ activeRequests = 3
    /\ \A id \in 1..Len(requests) :
          requests[id].emergencyBypass /\ requests[id].status = "active"

\* C37: every active request is an entry of requestHistory, the entries with
\* status active are as many as activeRequests, and the completion of any
\* active request is found and processed.
C37_ActiveAreInHistory ==
    LET active == {id \in 1..Len(requests) : requests[id].status = "active"}
        entries == {i \in 1..Len(requestHistory) :
                       requests[requestHistory[i]].status = "active"}
    IN /\ \A id \in active :
              \E i \in 1..Len(requestHistory) : requestHistory[i] = id
       /\ Cardinality(entries) = activeRequests
       /\ \A id \in active :
              /\ FindRequest(TM, id) = id
              /\ CompleteRequest(TM, id).requests[id].status = "completed"

\* The numbers below the current limit, as arguments of updateThreadLimits.
LowerArgs ==
    {arg \in UpdateArgs :
        arg.type = "number" /\ ~arg.nan /\ arg.val < maxConcurrentRequests}

FollowExecute(count) ==
    /\ Len(requests) < count
    /\ \E emergencyBypass \in BOOLEAN :
          InstallThreader(ThreaderExecute(LT, LLMRequest(0, emergencyBypass,
                                                         0, FALSE)))

FollowTick(maxTicks) ==
    /\ ~tickInFlight
    /\ timers # {}
    /\ NextStamp(monitoringState.systemMetrics) <= maxTicks
    /\ \E systemInfo \in {CoolSystem, HotSystem} :
          \E env \in EmergencyEnvironments(
                         scalingEngine,
                         IsEmergency(systemInfo) \/ IsNearEmergency(systemInfo)) :
              InstallThreader(RunTick(LT, systemInfo, GetQueueMetrics(TM), 0, env))

NextFollow ==
    \/ FollowExecute(MaxFollowRequests)
    \/ OperationResolves
    \/ FollowTick(MaxFollowTicks)

SpecFollow == InitThreader /\ [][NextFollow]_vars

TickOutcomes(i) ==
    LET atEngine ==
            IF tick[i].pc = "telemetry"
            THEN {RecordTelemetry(LT, i, systemInfo, GetQueueMetrics(TM)) :
                     systemInfo \in SystemKinds}
            ELSE {LT}
    IN UNION {{Decide(w, i, 0, env) :
                  env \in Environments(
                              w.scalingEngine,
                              \/ IsEmergency(w.tick[i].systemInfo[1])
                              \/ IsNearEmergency(w.tick[i].systemInfo[1]),
                              w.tick[i].queueMetrics[1].measured)} :
              w \in atEngine}

\* C40: once shutdown() has returned, a tick that was in flight ends without
\* changing the manager's limit and without calling onScalingUpdate.
C40_QuietAfterShutdown ==
    (~isInitialized /\ timers = {}) =>
        \A i \in 1..Len(tick) :
            \A after \in TickOutcomes(i) :
                /\ after.threadManager.maxConcurrentRequests = maxConcurrentRequests
                /\ after.threadManager.calls = <<>>
                /\ after.userCalls = <<>>

====
